---- MODULE Spec2Model ----
(***************************************************************************)
(* A model of the jsonschema reflection walker: Reflect / reflectType /    *)
(* reflectStruct (reflect.go), the per-kind handlers (reflect_types.go)    *)
(* and the field descriptor reader parseTags / applyValidation (tags).     *)
(*                                                                         *)
(* The walker is recursive Go code.  It is modelled as a machine with an   *)
(* explicit call stack: every frame is one activation of a Go function,    *)
(* and every action is one stretch of straight-line code between two       *)
(* calls or returns.  The registry (Definitions) is the one map shared by  *)
(* all the frames of one Reflect call.                                     *)
(***************************************************************************)
EXTENDS Integers, Sequences, FiniteSets, TLC

VARIABLES
    input,        \* the value handed to Reflect:  [t |-> type, v |-> value]
    rootFields,   \* the fields of the generated struct type Root
    types,        \* the declared types of the program, by name
    other,        \* the Reflect call of a second goroutine while it is not
                  \* the one running, <<>> when there is none
    done,         \* the documents of the calls that returned before
    stack,        \* the call stack, innermost frame last
    ret,          \* the *Type returned by the frame that returned last
    definitions,  \* the Definitions map of the running Reflect call
    schema,       \* the *Schema returned by Reflect, <<>> before that
    status        \* idle | running | returned | panic | overflow

vars ==
    <<input, rootFields, types, other, done, stack, ret, definitions, schema,
      status>>

\* what no step of a Reflect call changes
fixed == <<input, rootFields, types, other, done>>

-----------------------------------------------------------------------------
(* Bounds of the model.                                                    *)

\* the most fields the generated struct Root has
MaxFields == 2
\* the most frames the call stack holds before the run is cut off as a
\* stack overflow (Go ends the process when a goroutine's stack is used up)
MaxDepth == 14

-----------------------------------------------------------------------------
(* Strings.  A struct tag value is kept as its sequence of tokens, with    *)
(* the separator "," a token of its own, so that strings.Split does the    *)
(* work it does in the code.                                               *)

RECURSIVE Concat(_)
Concat(ts) == IF ts = <<>> THEN "" ELSE Head(ts) \o Concat(Tail(ts))

\* strings.Split(s, ","): the segments between the separators
RECURSIVE SplitFrom(_, _, _)
SplitFrom(ts, cur, acc) ==
    IF ts = <<>> THEN Append(acc, cur)
    ELSE IF Head(ts) = "," THEN SplitFrom(Tail(ts), "", Append(acc, cur))
    ELSE SplitFrom(Tail(ts), cur \o Head(ts), acc)

Split(ts) == SplitFrom(ts, "", <<>>)

\* strconv.ParseBool, its error dropped: false for whatever is not a true
ParseBool(s) == s \in {"1", "t", "T", "TRUE", "true", "True"}

\* strconv.Atoi, its error dropped: 0 for whatever is not a number
AtoiTable ==
    [s \in {"0", "1", "2", "3", "4", "5", "18", "20", "120"} |->
        CASE s = "0" -> 0 [] s = "1" -> 1 [] s = "2" -> 2 [] s = "3" -> 3
          [] s = "4" -> 4 [] s = "5" -> 5 [] s = "18" -> 18 [] s = "20" -> 20
          [] s = "120" -> 120]

Atoi(s) == IF s \in DOMAIN AtoiTable THEN AtoiTable[s] ELSE 0

\* the empty map / nil slice / nil pointer of a Go field
Nil == <<>>

Put(m, k, x) == [y \in DOMAIN m \cup {k} |-> IF y = k THEN x ELSE m[y]]

-----------------------------------------------------------------------------
(* reflect.StructTag: the key:"value" pairs of a field's tag.              *)

TagKeys ==
    {"name", "json", "title", "required", "ignore", "minLength", "maxLength",
     "format", "multipleOf", "minimum", "maximum", "exclusiveMaximum",
     "exclusiveMinimum", "minItems", "maxItems", "uniqueItems", "show_if",
     "hide_if"}

\* tag.Lookup(key)
Lookup(tag, key) ==
    IF key \in DOMAIN tag THEN [value |-> Concat(tag[key]), ok |-> TRUE]
    ELSE [value |-> "", ok |-> FALSE]

\* tag.Get(key)
Get(tag, key) == Lookup(tag, key).value

NoTag == Nil

-----------------------------------------------------------------------------
(* tags and parseTags.                                                     *)

\* tags{}: the zero value of the descriptor
ZeroTags ==
    [name |-> "", title |-> "", required |-> FALSE, ignored |-> FALSE,
     minLength |-> 0, maxLength |-> 0, format |-> "",
     multipleOf |-> 0, minimum |-> 0, maximum |-> 0,
     exclusiveMaximum |-> FALSE, exclusiveMinimum |-> FALSE,
     minItems |-> 0, maxItems |-> 0, uniqueItems |-> FALSE,
     showIf |-> "", hideIf |-> ""]

\* the name of the descriptor and whether the json name is the "-" sentinel:
\* the "name" key when the tag has it, else the first segment of "json"
TagName(tag) ==
    LET byName == Lookup(tag, "name")
        parts  == Split(IF "json" \in DOMAIN tag THEN tag["json"] ELSE <<>>)
    IN  IF byName.ok THEN [name |-> byName.value, dash |-> FALSE]
        ELSE IF parts[1] = "-" THEN [name |-> "", dash |-> TRUE]
        ELSE [name |-> parts[1], dash |-> FALSE]

parseTags(tag) ==
    LET n == TagName(tag) IN
    IF n.dash THEN [ZeroTags EXCEPT !.ignored = TRUE]
    ELSE [name             |-> n.name,
          title            |-> Get(tag, "title"),
          ignored          |-> ParseBool(Get(tag, "ignore")),
          required         |-> ParseBool(Get(tag, "required")),
          minLength        |-> Atoi(Get(tag, "minLength")),
          maxLength        |-> Atoi(Get(tag, "maxLength")),
          format           |-> Get(tag, "format"),
          multipleOf       |-> Atoi(Get(tag, "multipleOf")),
          minimum          |-> Atoi(Get(tag, "minimum")),
          maximum          |-> Atoi(Get(tag, "maximum")),
          exclusiveMinimum |-> ParseBool(Get(tag, "exclusiveMinimum")),
          exclusiveMaximum |-> ParseBool(Get(tag, "exclusiveMaximum")),
          minItems         |-> Atoi(Get(tag, "minItems")),
          maxItems         |-> Atoi(Get(tag, "maxItems")),
          uniqueItems      |-> ParseBool(Get(tag, "uniqueItems")),
          showIf           |-> Get(tag, "show_if"),
          hideIf           |-> Get(tag, "hide_if")]

-----------------------------------------------------------------------------
(* Type, the schema node.  A nil pointer, nil slice or empty map is <<>>;  *)
(* a pointer to a node is the one-element sequence holding the node.       *)

tTypeObject  == "object"
tTypeString  == "string"
tTypeInteger == "integer"
tTypeNumber  == "number"
tTypeBoolean == "boolean"
tTypeArray   == "array"

Version == "http://json-schema.org/draft-04/schema#"

\* &Type{}
EmptyType ==
    [Version |-> "", Type |-> "", Ref |-> "", Format |-> "", Title |-> "",
     Properties |-> Nil, PatternProperties |-> Nil, Definitions |-> Nil,
     Required |-> Nil, Items |-> Nil, Media |-> Nil, BinaryEncoding |-> "",
     AdditionalProperties |-> "",
     MinItems |-> 0, MaxItems |-> 0, UniqueItems |-> FALSE,
     MinLength |-> 0, MaxLength |-> 0,
     MultipleOf |-> 0, Minimum |-> 0, Maximum |-> 0,
     ExclusiveMinimum |-> FALSE, ExclusiveMaximum |-> FALSE,
     Enum |-> Nil, OneOf |-> Nil, AnyOf |-> Nil, AllOf |-> Nil,
     Default |-> Nil]

\* newType(typ): a node of that kind with its Properties map made
newType(typ) == [EmptyType EXCEPT !.Type = typ]

\* newReference with the path of another keyword
newReference_WrongPath(typ) == [EmptyType EXCEPT !.Ref = "#/definition/" \o typ]

\* newReference(typ)
newReference(typ) == [EmptyType EXCEPT !.Ref = "#/definitions/" \o typ]

\* applyValidation with the format taken from the tag whatever it is
applyValidation_AlwaysFormat(dst, t) ==
    CASE dst.Type = tTypeString ->
            [dst EXCEPT !.MinLength = t.minLength,
                        !.MaxLength = t.maxLength,
                        !.Format = t.format]
      [] dst.Type = tTypeNumber ->
            [dst EXCEPT !.MultipleOf = t.multipleOf,
                        !.Minimum = t.minimum,
                        !.Maximum = t.maximum,
                        !.ExclusiveMinimum = t.exclusiveMinimum,
                        !.ExclusiveMaximum = t.exclusiveMaximum]
      [] dst.Type = tTypeArray ->
            [dst EXCEPT !.MinItems = t.minItems,
                        !.MaxItems = t.maxItems,
                        !.UniqueItems = t.uniqueItems]
      [] OTHER -> dst

applyValidation(dst, t) ==
    CASE dst.Type = tTypeString ->
            [dst EXCEPT !.MinLength = t.minLength,
                        !.MaxLength = t.maxLength,
                        !.Format = IF t.format # "" THEN t.format ELSE @]
      [] dst.Type = tTypeNumber ->
            [dst EXCEPT !.MultipleOf = t.multipleOf,
                        !.Minimum = t.minimum,
                        !.Maximum = t.maximum,
                        !.ExclusiveMinimum = t.exclusiveMinimum,
                        !.ExclusiveMaximum = t.exclusiveMaximum]
      [] dst.Type = tTypeArray ->
            [dst EXCEPT !.MinItems = t.minItems,
                        !.MaxItems = t.maxItems,
                        !.UniqueItems = t.uniqueItems]
      [] OTHER -> dst

applyInfo(dst, t) == [dst EXCEPT !.Title = t.title]

-----------------------------------------------------------------------------
(* reflect.Type.  A type is named by its sequence of tokens: a declared    *)
(* type by its one token (<<"GrandfatherType">>), an unnamed composite     *)
(* type by its constructor followed by its element type (<<"*", "Node">>,  *)
(* <<"[]", "uint8">>, <<"[4]", "int">>, <<"map", "int">>), so that two     *)
(* unnamed types are the same type exactly when Go says they are.          *)

IntKinds ==
    {"int", "int8", "int16", "int32", "int64",
     "uint", "uint8", "uint16", "uint32", "uint64"}

FloatKinds == {"float32", "float64"}

\* the capability interfaces, in no particular order
Caps == {"pbenum", "oneof", "anyof", "allof", "enum"}

PtrTo(t)   == <<"*">> \o t
SliceOf(t) == <<"[]">> \o t
MapOf(t)   == <<"map">> \o t
ArrayOf(tok, t) == <<tok>> \o t

ArrayLen == [tok \in {"[2]", "[4]"} |-> IF tok = "[2]" THEN 2 ELSE 4]

RootId == <<"Root">>

typeTime      == <<"time.Time">>
typeIP        == <<"net.IP">>
typeURI       == <<"url.URL">>
typeByteSlice == SliceOf(<<"uint8">>)

\* a struct field: reflect.StructField
Field(name, pkgPath, anonymous, type, tag) ==
    [Name |-> name, PkgPath |-> pkgPath, Anonymous |-> anonymous,
     Type |-> type, Tag |-> tag]

Json(n) == [json |-> <<n>>]
\* the tag `json:"n" jsonschema:"..."`
JsonS(n, js) == [json |-> <<n>>, jsonschema |-> js]

\* a value of a Go type: reflect.Value.  sub holds a struct's field values,
\* a slice's or array's elements, a non-nil pointer's pointee, a non-nil
\* interface's dynamic value; lit is a scalar's literal.
Val(t, isNil, sub, lit) ==
    [vt |-> t, valid |-> TRUE, nil |-> isNil, sub |-> sub, lit |-> lit]

\* the zero reflect.Value
Invalid == [vt |-> <<>>, valid |-> FALSE, nil |-> TRUE, sub |-> <<>>, lit |-> ""]

Str(s) == Val(<<"string">>, FALSE, <<>>, s)

Basic(n, k) ==
    [name |-> n, kind |-> k, elem |-> <<>>, len |-> 0, fields |-> <<>>,
     caps |-> {}, pcaps |-> {}, variants |-> <<>>]

Struct(n, fs) == [Basic(n, "struct") EXCEPT !.fields = fs]

\* a type with value-receiver capability methods cs returning vs
WithCaps(ty, cs, vs) == [ty EXCEPT !.caps = cs, !.variants = vs]

\* a type whose capability methods cs have pointer receivers
WithPtrCaps(ty, cs, vs) == [ty EXCEPT !.pcaps = cs, !.variants = vs]

Composite(k, e, n) == [Basic("", k) EXCEPT !.elem = e, !.len = n]

Variants123 == <<Str("1"), Str("2"), Str("3")>>

\* variants of more than one kind: an int, a string, a struct
MixedVariants ==
    <<Val(<<"int">>, FALSE, <<>>, "7"),
      Str("a"),
      Val(<<"GrandfatherType">>, FALSE, <<Str("V")>>, "")>>

\* the declared types of the model: Go's own, the standard library's three
\* well-known types, the types of the package's tests, and a few more with
\* the shapes the walker's cases need
NamedTypes ==
    [h \in {"int", "int32", "uint8", "float64", "bool", "string",
            "interface{}", "chan", "time.Time", "net.IP", "url.URL",
            "GrandfatherType", "SomeBaseType", "nonExported", "ProtoEnum",
            "enumImpl", "implicitOneOfImpl", "implicitAnyOfImpl",
            "implicitAllOfImpl", "EnumAlign", "String", "ColorPicker",
            "OneOfType", "OneAnyImpl", "AnyAllEnumImpl", "PBAllEnumImpl",
            "AllEnumImpl", "EmptyEnumImpl", "EmptyOneOfImpl",
            "Node", "Tree", "Graph", "Ping", "Pong",
            "pkga.Config", "pkgb.Config", "Blob", "struct{A}", "struct{B}",
            "MixedOneOf", "MixedAnyOf", "MixedAllOf", "MixedEnum"} |->
      CASE h \in {"int", "int32", "uint8", "float64", "bool", "string"} ->
             Basic(h, h)
        [] h = "interface{}" -> Basic("", "interface")
        [] h = "chan" -> Basic("", "chan")
        [] h = "time.Time" ->
             Struct("Time", <<Field("wall", "time", FALSE, <<"int">>, NoTag),
                              Field("ext", "time", FALSE, <<"int">>, NoTag),
                              Field("loc", "time", FALSE, <<"*", "int">>, NoTag)>>)
        [] h = "net.IP" -> [Basic("IP", "slice") EXCEPT !.elem = <<"uint8">>]
        [] h = "url.URL" ->
             Struct("URL", <<Field("Scheme", "", FALSE, <<"string">>, NoTag),
                             Field("Host", "", FALSE, <<"string">>, NoTag)>>)
        [] h = "GrandfatherType" ->
             Struct(h, <<Field("FamilyName", "", FALSE, <<"string">>,
                               JsonS("family_name", <<"required">>))>>)
        [] h = "SomeBaseType" ->
             Struct(h,
               <<Field("SomeBaseProperty", "", FALSE, <<"int">>,
                       Json("some_base_property")),
                 Field("somePrivateBaseProperty", "jsonschema", FALSE,
                       <<"string">>, JsonS("i_am_private", <<"required">>)),
                 Field("SomeIgnoredBaseProperty", "", FALSE, <<"string">>,
                       JsonS("-", <<"required">>)),
                 Field("SomeSchemaIgnoredProperty", "", FALSE, <<"string">>,
                       [jsonschema |-> <<"-", ",", "required">>]),
                 Field("Grandfather", "", FALSE, <<"GrandfatherType">>,
                       Json("grand")),
                 Field("SomeUntaggedBaseProperty", "", FALSE, <<"bool">>,
                       [jsonschema |-> <<"required">>]),
                 Field("someUnexportedUntaggedBaseProperty", "jsonschema",
                       FALSE, <<"bool">>, NoTag)>>)
        [] h = "nonExported" ->
             Struct(h, <<Field("PublicNonExported", "", FALSE, <<"int">>,
                               NoTag),
                         Field("privateNonExported", "jsonschema", FALSE,
                               <<"int">>, NoTag)>>)
        [] h = "ProtoEnum" -> WithCaps(Basic(h, "int32"), {"pbenum"}, <<>>)
        [] h = "enumImpl" -> WithCaps(Struct(h, <<>>), {"enum"}, Variants123)
        [] h = "implicitOneOfImpl" ->
             WithCaps(Struct(h, <<>>), {"oneof"}, Variants123)
        [] h = "implicitAnyOfImpl" ->
             WithCaps(Struct(h, <<>>), {"anyof"}, Variants123)
        [] h = "implicitAllOfImpl" ->
             WithCaps(Struct(h, <<>>), {"allof"}, Variants123)
        [] h = "EnumAlign" ->
             WithCaps(Basic(h, "string"), {"enum"}, <<Str("center")>>)
        [] h = "String" -> Basic(h, "string")
        [] h = "ColorPicker" ->
             Struct(h, <<Field("String", "", TRUE, <<"String">>, NoTag)>>)
        [] h = "OneOfType" ->
             WithPtrCaps(
               Struct(h, <<Field("Variant", "", FALSE, <<"interface{}">>,
                                 NoTag)>>),
               {"oneof"},
               <<Val(<<"*", "GrandfatherType">>, FALSE,
                     <<Val(<<"GrandfatherType">>, FALSE, <<Str("")>>, "")>>,
                     "")>>)
        [] h = "OneAnyImpl" ->
             WithCaps(Struct(h, <<Field("X", "", FALSE, <<"int">>, Json("x"))>>),
                      {"oneof", "anyof"}, Variants123)
        [] h = "AnyAllEnumImpl" ->
             WithCaps(Struct(h, <<Field("X", "", FALSE, <<"int">>, Json("x"))>>),
                      {"anyof", "allof", "enum"}, Variants123)
        [] h = "PBAllEnumImpl" ->
             WithCaps(Basic(h, "int32"), {"pbenum", "allof", "enum"},
                      Variants123)
        [] h = "AllEnumImpl" ->
             WithCaps(Struct(h, <<Field("X", "", FALSE, <<"int">>, Json("x"))>>),
                      {"allof", "enum"}, Variants123)
        [] h = "EmptyEnumImpl" -> WithCaps(Basic(h, "string"), {"enum"}, <<>>)
        [] h = "EmptyOneOfImpl" -> WithCaps(Basic(h, "string"), {"oneof"}, <<>>)
        [] h = "Node" ->
             Struct(h, <<Field("Next", "", FALSE, <<"*", "Node">>,
                               Json("next"))>>)
        [] h = "Tree" ->
             Struct(h, <<Field("Kids", "", FALSE, <<"[]", "Tree">>,
                               Json("kids"))>>)
        [] h = "Graph" ->
             Struct(h, <<Field("Edges", "", FALSE, <<"map", "Graph">>,
                               Json("edges"))>>)
        [] h = "Ping" ->
             Struct(h, <<Field("Pong", "", FALSE, <<"*", "Pong">>,
                               Json("pong"))>>)
        [] h = "Pong" ->
             Struct(h, <<Field("Ping", "", FALSE, <<"*", "Ping">>,
                               Json("ping"))>>)
        [] h = "pkga.Config" ->
             Struct("Config", <<Field("Host", "", FALSE, <<"string">>,
                                      Json("host"))>>)
        [] h = "pkgb.Config" ->
             Struct("Config", <<Field("Port", "", FALSE, <<"int">>,
                                      Json("port"))>>)
        [] h = "Blob" -> [Basic(h, "slice") EXCEPT !.elem = <<"uint8">>]
        [] h = "struct{A}" ->
             Struct("", <<Field("A", "", FALSE, <<"int">>, Json("a"))>>)
        [] h = "struct{B}" ->
             Struct("", <<Field("B", "", FALSE, <<"string">>, Json("b"))>>)
        [] h = "MixedOneOf" -> WithCaps(Struct(h, <<>>), {"oneof"}, MixedVariants)
        [] h = "MixedAnyOf" -> WithCaps(Struct(h, <<>>), {"anyof"}, MixedVariants)
        [] h = "MixedAllOf" -> WithCaps(Struct(h, <<>>), {"allof"}, MixedVariants)
        [] h = "MixedEnum" ->
             WithCaps(Basic(h, "string"), {"enum"}, MixedVariants)]

\* the reflect.Type behind a type's tokens
TypeOf(t) ==
    LET h == Head(t) IN
    CASE h = "*"   -> Composite("ptr", Tail(t), 0)
      [] h = "[]"  -> Composite("slice", Tail(t), 0)
      [] h = "map" -> Composite("map", Tail(t), 0)
      [] h \in DOMAIN ArrayLen -> Composite("array", Tail(t), ArrayLen[h])
      [] t = RootId -> Struct("Root", rootFields)
      [] OTHER -> types[h]

\* t.Name(), t.Kind(), t.Elem()
TName(t) == TypeOf(t).name
TKind(t) == TypeOf(t).kind
TElem(t) == TypeOf(t).elem

\* t.Implements(u) for the capability interface c: the method set of a
\* pointer type holds the methods of both receivers
Implements(t, c) ==
    IF TKind(t) = "ptr" /\ TKind(TElem(t)) \notin {"ptr", "interface"}
    THEN c \in TypeOf(TElem(t)).caps \cup TypeOf(TElem(t)).pcaps
    ELSE c \in TypeOf(t).caps

\* reflect.Zero(t)
RECURSIVE Zero(_)
Zero(t) ==
    LET ty == TypeOf(t) IN
    CASE ty.kind = "struct" ->
           Val(t, FALSE, [i \in 1..Len(ty.fields) |-> Zero(ty.fields[i].Type)], "")
      [] ty.kind = "array" ->
           Val(t, FALSE, [i \in 1..ty.len |-> Zero(ty.elem)], "")
      [] ty.kind \in IntKinds \cup FloatKinds -> Val(t, FALSE, <<>>, "0")
      [] ty.kind = "bool" -> Val(t, FALSE, <<>>, "false")
      [] ty.kind = "string" -> Val(t, FALSE, <<>>, "")
      [] OTHER -> Val(t, TRUE, <<>>, "")

\* reflect.New(t): a pointer to a new zero value
New(t) == Val(PtrTo(t), FALSE, <<Zero(t)>>, "")

\* v.Kind(), v.Type(), v.IsValid()
Kind(v)    == IF v.valid THEN TKind(v.vt) ELSE "invalid"
IsValid(v) == v.valid

\* v.Elem() of a pointer or an interface: the zero Value when it is nil
Elem(v) == IF v.nil THEN Invalid ELSE v.sub[1]

\* reflect.Indirect(v)
Indirect(v) == IF Kind(v) = "ptr" THEN Elem(v) ELSE v

\* v.NumField(), v.Field(i), v.Type().Field(i), counted from 1
NumField(v)     == Len(TypeOf(v.vt).fields)
FieldValue(v, i) == v.sub[i]
StructField(v, i) == TypeOf(v.vt).fields[i]

-----------------------------------------------------------------------------
(* The leaf handlers of reflect_types.go.                                  *)

\* handleDefaultValue that sets no default
handleDefaultValue_Never(dst, v) == dst

handleDefaultValue(dst, v) ==
    IF IsValid(v) THEN [dst EXCEPT !.Default = <<v>>] ELSE dst

reflectTime == [EmptyType EXCEPT !.Type = tTypeString, !.Format = "date-time"]
reflectIP   == [EmptyType EXCEPT !.Type = tTypeString, !.Format = "ipv4"]
reflectURI  == [EmptyType EXCEPT !.Type = tTypeString, !.Format = "uri"]

reflectPBEnum ==
    [EmptyType EXCEPT !.OneOf = <<[EmptyType EXCEPT !.Type = tTypeString],
                                  [EmptyType EXCEPT !.Type = tTypeInteger]>>]

reflectInteger(v) ==
    handleDefaultValue([EmptyType EXCEPT !.Type = tTypeInteger], v)
reflectNumber(v) ==
    handleDefaultValue([EmptyType EXCEPT !.Type = tTypeNumber], v)
reflectBool(v) ==
    handleDefaultValue([EmptyType EXCEPT !.Type = tTypeBoolean], v)
reflectString(v) ==
    handleDefaultValue([EmptyType EXCEPT !.Type = tTypeString], v)
reflectInterface(t, v) ==
    handleDefaultValue([EmptyType EXCEPT !.Type = tTypeObject,
                                         !.AdditionalProperties = "true"], v)

-----------------------------------------------------------------------------
(* The call stack.                                                         *)

\* a new activation of function fn on (t, v, root)
Frame(fn, t, v, root) ==
    [fn |-> fn, t |-> t, v |-> v, root |-> root, pc |-> "start", i |-> 1,
     cur |-> EmptyType, list |-> <<>>]

\* a new activation of reflectStruct: currentType is made on entry
StructFrame(v) ==
    [Frame("reflectStruct", v.vt, v, FALSE) EXCEPT !.cur = newType(tTypeObject)]

Depth == Len(stack)
Top   == stack[Depth]
Running(fn, pc) ==
    /\ status = "running"
    /\ Depth > 0
    /\ Top.fn = fn
    /\ Top.pc = pc

\* the running function calls callee and waits for it as caller; a stack
\* that cannot grow ends the run
Call(caller, callee) ==
    IF Depth >= MaxDepth
    THEN /\ status' = "overflow"
         /\ UNCHANGED <<fixed, stack, ret, definitions, schema>>
    ELSE /\ stack' = Append([stack EXCEPT ![Depth] = caller], callee)
         /\ UNCHANGED <<fixed, ret, definitions, schema, status>>

\* return f(...): the callee runs in the place of the running function,
\* which has nothing left to do but hand its result on
TailCall(callee) ==
    /\ stack' = [stack EXCEPT ![Depth] = callee]
    /\ UNCHANGED <<fixed, ret, definitions, schema, status>>

\* the running function returns node
Return(node) ==
    /\ stack' = SubSeq(stack, 1, Depth - 1)
    /\ ret' = node
    /\ UNCHANGED <<fixed, definitions, schema, status>>

\* the running function goes on as frame f
Goto(f) ==
    /\ stack' = [stack EXCEPT ![Depth] = f]
    /\ UNCHANGED <<fixed, ret, definitions, schema, status>>

\* a run-time panic: nothing recovers it, the Reflect call never returns
Panic ==
    /\ status' = "panic"
    /\ UNCHANGED <<fixed, stack, ret, definitions, schema>>

-----------------------------------------------------------------------------
(* reflectType.                                                            *)

\* the value after the pointer and interface steps at the head of
\* reflectType: a pointer is followed once, a nil one replaced by the zero
\* value of t's element type; an interface value by what it holds
DerefPtr(t, v) ==
    IF Kind(v) = "ptr"
    THEN IF IsValid(Elem(v)) THEN Elem(v) ELSE Zero(TElem(t))
    ELSE v

Deref(t, v) ==
    LET v1 == DerefPtr(t, v) IN
    IF Kind(v1) = "interface" THEN Indirect(Elem(v1)) ELSE v1

\* switch t: the three well-known types, compared by identity
IsSpecial(t) == t \in {typeTime, typeIP, typeURI}

\* FirstCap with the cases in the opposite order
FirstCap_LastCase(t) ==
    CASE Implements(t, "enum")   -> "enum"
      [] Implements(t, "allof")  -> "allof"
      [] Implements(t, "anyof")  -> "anyof"
      [] Implements(t, "oneof")  -> "oneof"
      [] Implements(t, "pbenum") -> "pbenum"
      [] OTHER -> ""

\* switch true: the capability whose case comes first, "" when none does
FirstCap(t) ==
    CASE Implements(t, "pbenum") -> "pbenum"
      [] Implements(t, "oneof")  -> "oneof"
      [] Implements(t, "anyof")  -> "anyof"
      [] Implements(t, "allof")  -> "allof"
      [] Implements(t, "enum")   -> "enum"
      [] OTHER -> ""

CapHandler(c) ==
    CASE c = "oneof" -> "reflectOneOf"
      [] c = "anyof" -> "reflectAnyOf"
      [] c = "allof" -> "reflectAllOf"
      [] c = "enum"  -> "reflectEnum"

RT_Special ==
    /\ Running("reflectType", "start")
    /\ IsSpecial(Top.t)
    /\ Return(CASE Top.t = typeTime -> reflectTime
                [] Top.t = typeIP   -> reflectIP
                [] Top.t = typeURI  -> reflectURI)

RT_Capability ==
    /\ Running("reflectType", "start")
    /\ ~IsSpecial(Top.t)
    /\ FirstCap(Top.t) # ""
    /\ LET c == FirstCap(Top.t)
           v == Deref(Top.t, Top.v)
       IN  IF c = "pbenum" THEN Return(reflectPBEnum)
           ELSE TailCall(Frame(CapHandler(c), Top.t, v, FALSE))

\* none of the cases before the switch on v.Kind() took the value
Generic(f) ==
    /\ ~IsSpecial(f.t)
    /\ FirstCap(f.t) = ""

\* RT_Struct with the node put into the registry before its members are
\* walked
RT_Struct_RegisterFirst ==
    /\ Running("reflectType", "start")
    /\ Generic(Top)
    /\ Kind(Deref(Top.t, Top.v)) = "struct"
    /\ Depth < MaxDepth
    /\ LET v == Deref(Top.t, Top.v) IN
       /\ definitions' = IF Top.root THEN definitions
                         ELSE Put(definitions, TName(v.vt), newType(tTypeObject))
       /\ stack' = Append([stack EXCEPT ![Depth] = [Top EXCEPT !.pc = "struct", !.v = v]],
                          StructFrame(v))
       /\ UNCHANGED <<fixed, ret, schema, status>>

\* case reflect.Struct: the call of reflectStruct
RT_Struct ==
    /\ Running("reflectType", "start")
    /\ Generic(Top)
    /\ Kind(Deref(Top.t, Top.v)) = "struct"
    /\ LET v == Deref(Top.t, Top.v) IN
       Call([Top EXCEPT !.pc = "struct", !.v = v], StructFrame(v))

\* RT_StructReturn with the node returned inline at every position
RT_StructReturn_Inline ==
    /\ Running("reflectType", "struct")
    /\ Return(ret)

\* RT_StructReturn with the type's package-qualified name as the key
RT_StructReturn_QualifiedKey ==
    /\ Running("reflectType", "struct")
    /\ IF Top.root
       THEN Return(ret)
       ELSE /\ definitions' = Put(definitions, Concat(Top.v.vt), ret)
            /\ stack' = SubSeq(stack, 1, Depth - 1)
            /\ ret' = newReference(Concat(Top.v.vt))
            /\ UNCHANGED <<fixed, schema, status>>

\* RT_StructReturn with the reference returned and nothing stored
RT_StructReturn_NoStore ==
    /\ Running("reflectType", "struct")
    /\ Return(IF Top.root THEN ret ELSE newReference(TName(Top.v.vt)))

\* case reflect.Struct, after reflectStruct: the root's node is returned as
\* it is, any other is stored under its type's name and a reference returned
RT_StructReturn ==
    /\ Running("reflectType", "struct")
    /\ IF Top.root
       THEN Return(ret)
       ELSE /\ definitions' = Put(definitions, TName(Top.v.vt), ret)
            /\ stack' = SubSeq(stack, 1, Depth - 1)
            /\ ret' = newReference(TName(Top.v.vt))
            /\ UNCHANGED <<fixed, schema, status>>

RT_Slice ==
    /\ Running("reflectType", "start")
    /\ Generic(Top)
    /\ Kind(Deref(Top.t, Top.v)) = "slice"
    /\ TailCall(Frame("reflectSlice", Top.t, Deref(Top.t, Top.v), FALSE))

RT_Map ==
    /\ Running("reflectType", "start")
    /\ Generic(Top)
    /\ Kind(Deref(Top.t, Top.v)) = "map"
    /\ TailCall(Frame("reflectMap", Top.t, Deref(Top.t, Top.v), FALSE))

RT_Scalar ==
    /\ Running("reflectType", "start")
    /\ Generic(Top)
    /\ LET v == Deref(Top.t, Top.v)
           k == Kind(v)
       IN  /\ k \in IntKinds \cup FloatKinds \cup {"bool", "string"}
           /\ Return(CASE k \in IntKinds   -> reflectInteger(v)
                       [] k \in FloatKinds -> reflectNumber(v)
                       [] k = "bool"       -> reflectBool(v)
                       [] k = "string"     -> reflectString(v))

\* no case of the switch on v.Kind() matches
RT_Interface ==
    /\ Running("reflectType", "start")
    /\ Generic(Top)
    /\ LET v == Deref(Top.t, Top.v) IN
       /\ Kind(v) \notin {"struct", "slice", "map", "bool", "string"}
                           \cup IntKinds \cup FloatKinds
       /\ Return(reflectInterface(Top.t, v))

-----------------------------------------------------------------------------
(* reflectStruct.  Top.i is the loop's field, Top.cur is currentType.      *)

\* v.NumField() panics on a value that is not a struct
RS_NumFieldPanic ==
    /\ status = "running"
    /\ Depth > 0
    /\ Top.fn = "reflectStruct"
    /\ Kind(Top.v) # "struct"
    /\ Panic

\* the loop is at a field
AtField(f) ==
    /\ f.fn = "reflectStruct"
    /\ f.pc = "start"
    /\ Kind(f.v) = "struct"
    /\ f.i <= NumField(f.v)

\* i++ and the next round of the loop
NextField(f) == [f EXCEPT !.i = f.i + 1, !.pc = "start"]

\* the loop ends: return currentType
RS_Return ==
    /\ Running("reflectStruct", "start")
    /\ Kind(Top.v) = "struct"
    /\ Top.i > NumField(Top.v)
    /\ Return(Top.cur)

\* an unexported field
RS_Unexported ==
    /\ status = "running"
    /\ Depth > 0
    /\ AtField(Top)
    /\ StructField(Top.v, Top.i).PkgPath # ""
    /\ Goto(NextField(Top))

\* an embedded field: the call of reflectStruct on the field's value
RS_Embedded ==
    /\ status = "running"
    /\ Depth > 0
    /\ AtField(Top)
    /\ StructField(Top.v, Top.i).PkgPath = ""
    /\ StructField(Top.v, Top.i).Anonymous
    /\ LET fv == FieldValue(Top.v, Top.i) IN
       Call([Top EXCEPT !.pc = "embedded"], StructFrame(fv))

\* m with every entry of extra put into it
Merge(m, extra) ==
    [k \in DOMAIN m \cup DOMAIN extra |->
        IF k \in DOMAIN extra THEN extra[k] ELSE m[k]]

\* an embedded field, after reflectStruct: its definitions go to the
\* registry and its properties to currentType; the code then goes on to
\* the field's tags
RS_EmbeddedReturn ==
    /\ Running("reflectStruct", "embedded")
    /\ definitions' = Merge(definitions, ret.Definitions)
    /\ stack' = [stack EXCEPT ![Depth] =
                    [Top EXCEPT !.pc = "tags",
                                !.cur.Properties = Merge(@, ret.Properties)]]
    /\ UNCHANGED <<fixed, ret, schema, status>>

\* the code is at tags := parseTags(structField.Tag)
AtTags(f) ==
    IF f.fn = "reflectStruct" /\ f.pc = "tags" THEN TRUE
    ELSE /\ AtField(f)
         /\ StructField(f.v, f.i).PkgPath = ""
         /\ ~StructField(f.v, f.i).Anonymous

FieldTags(f) == parseTags(StructField(f.v, f.i).Tag)

\* the descriptor says to leave the field out
Skipped(tags) == IF tags.name = "" THEN TRUE ELSE tags.ignored

RS_Skip ==
    /\ status = "running"
    /\ Depth > 0
    /\ AtTags(Top)
    /\ Skipped(FieldTags(Top))
    /\ Goto(NextField(Top))

\* the call of reflectType on the field
RS_Walk ==
    /\ status = "running"
    /\ Depth > 0
    /\ AtTags(Top)
    /\ ~Skipped(FieldTags(Top))
    /\ Call([Top EXCEPT !.pc = "field"],
            Frame("reflectType", StructField(Top.v, Top.i).Type,
                  FieldValue(Top.v, Top.i), FALSE))

\* after reflectType: title and validation are applied to the field's node
\* and it is put into currentType.Properties
RS_FieldReturn ==
    /\ Running("reflectStruct", "field")
    /\ LET tags == FieldTags(Top)
           fieldType == applyValidation(applyInfo(ret, tags), tags)
       IN  Goto(NextField([Top EXCEPT !.cur.Properties =
                                         Put(@, tags.name, fieldType)]))

-----------------------------------------------------------------------------
(* reflectSlice and reflectMap.                                            *)

\* returnType as it is before the switch on v.Type()
SliceType(v) ==
    IF TKind(v.vt) = "array"
    THEN [newType("") EXCEPT !.MinItems = TypeOf(v.vt).len,
                             !.MaxItems = TypeOf(v.vt).len]
    ELSE newType("")

\* SL_Bytes without the media of the node
SL_Bytes_NoMedia ==
    /\ Running("reflectSlice", "start")
    /\ Top.v.vt = typeByteSlice
    /\ Return([SliceType(Top.v) EXCEPT !.Type = tTypeString])

\* case typeByteSlice
SL_Bytes ==
    /\ Running("reflectSlice", "start")
    /\ Top.v.vt = typeByteSlice
    /\ Return([SliceType(Top.v) EXCEPT
                  !.Type = tTypeString,
                  !.Media = <<[EmptyType EXCEPT !.BinaryEncoding = "base64"]>>])

\* default: the call of reflectType on a pointer to a new element
SL_Items ==
    /\ Running("reflectSlice", "start")
    /\ Top.v.vt # typeByteSlice
    /\ LET elemValue == New(TElem(Top.v.vt)) IN
       Call([Top EXCEPT !.pc = "items",
                        !.cur = [SliceType(Top.v) EXCEPT !.Type = "array"]],
            Frame("reflectType", elemValue.vt, elemValue, FALSE))

SL_Return ==
    /\ Running("reflectSlice", "items")
    /\ Return([Top.cur EXCEPT !.Items = <<ret>>])

\* MP_Value with the first entry of a map that has one, not a new value
MP_Value_FirstEntry ==
    /\ Running("reflectMap", "start")
    /\ LET val == TElem(Top.v.vt) IN
       Call([Top EXCEPT !.pc = "value"],
            Frame("reflectType", val,
                  IF Top.v.sub # <<>>
                  THEN Val(PtrTo(val), FALSE, <<Top.v.sub[1]>>, "")
                  ELSE New(val), FALSE))

\* the call of reflectType on the value type and a pointer to a new value
MP_Value ==
    /\ Running("reflectMap", "start")
    /\ LET val == TElem(Top.v.vt) IN
       Call([Top EXCEPT !.pc = "value"],
            Frame("reflectType", val, New(val), FALSE))

\* m without key k
Delete(m, k) == [y \in DOMAIN m \ {k} |-> m[y]]

MP_Return ==
    /\ Running("reflectMap", "value")
    /\ Return([EmptyType EXCEPT
                 !.Type = tTypeObject,
                 !.PatternProperties =
                     Delete(Put(Nil, ".*", ret), "additionalProperties")])

-----------------------------------------------------------------------------
(* reflectOneOf, reflectAnyOf, reflectAllOf and reflectEnum.               *)

\* v.Interface().(I) panics on the zero Value and on a value whose type
\* does not have I's method
AssertPanics(v, c) == IF IsValid(v) THEN ~Implements(v.vt, c) ELSE TRUE

\* what the capability's method returns
VariantsOf(v) ==
    IF TKind(v.vt) = "ptr" THEN TypeOf(TElem(v.vt)).variants
    ELSE TypeOf(v.vt).variants

\* the capability a handler is for
HandlerCap(fn) ==
    CASE fn = "reflectOneOf" -> "oneof"
      [] fn = "reflectAnyOf" -> "anyof"
      [] fn = "reflectAllOf" -> "allof"
      [] fn = "reflectEnum"  -> "enum"

AltHandlers == {"reflectOneOf", "reflectAnyOf", "reflectAllOf"}

\* the type assertion at the head of the four handlers
CP_AssertPanic ==
    /\ status = "running"
    /\ Depth > 0
    /\ Top.fn \in AltHandlers \cup {"reflectEnum"}
    /\ Top.pc = "start"
    /\ AssertPanics(Top.v, HandlerCap(Top.fn))
    /\ Panic

\* the loop over the variants: the call of reflectType on variant Top.i
ALT_Variant(fn) ==
    /\ Running(fn, "start")
    /\ ~AssertPanics(Top.v, HandlerCap(fn))
    /\ Top.i <= Len(VariantsOf(Top.v))
    /\ LET variant == VariantsOf(Top.v)[Top.i] IN
       Call([Top EXCEPT !.pc = "variant"],
            Frame("reflectType", variant.vt, variant, FALSE))

\* ALT_VariantReturn with the node put at the head of the list
ALT_VariantReturn_Prepend(fn) ==
    /\ Running(fn, "variant")
    /\ Goto([Top EXCEPT !.pc = "start", !.i = Top.i + 1,
                        !.list = <<ret>> \o Top.list])

\* oneOf[idx] = ...
ALT_VariantReturn(fn) ==
    /\ Running(fn, "variant")
    /\ Goto([Top EXCEPT !.pc = "start", !.i = Top.i + 1,
                        !.list = Append(Top.list, ret)])

\* AltType with the Type of the last of the alternatives
AltType_LastKind(fn, list, v) ==
    LET typ == [EmptyType EXCEPT !.Type = list[Len(list)].Type] IN
    handleDefaultValue(
        CASE fn = "reflectOneOf" -> [typ EXCEPT !.OneOf = list]
          [] fn = "reflectAnyOf" -> [typ EXCEPT !.AnyOf = list]
          [] fn = "reflectAllOf" -> [typ EXCEPT !.AllOf = list],
        v)

\* AltType with no Type
AltType_NoKind(fn, list, v) ==
    handleDefaultValue(
        CASE fn = "reflectOneOf" -> [EmptyType EXCEPT !.OneOf = list]
          [] fn = "reflectAnyOf" -> [EmptyType EXCEPT !.AnyOf = list]
          [] fn = "reflectAllOf" -> [EmptyType EXCEPT !.AllOf = list],
        v)

\* the node of the alternatives: its Type is that of the first of them
AltType(fn, list, v) ==
    LET typ == [EmptyType EXCEPT !.Type = list[1].Type] IN
    handleDefaultValue(
        CASE fn = "reflectOneOf" -> [typ EXCEPT !.OneOf = list]
          [] fn = "reflectAnyOf" -> [typ EXCEPT !.AnyOf = list]
          [] fn = "reflectAllOf" -> [typ EXCEPT !.AllOf = list],
        v)

\* after the loop: oneOf[0] panics when there is no variant
ALT_Return(fn) ==
    /\ Running(fn, "start")
    /\ ~AssertPanics(Top.v, HandlerCap(fn))
    /\ Top.i > Len(VariantsOf(Top.v))
    /\ IF Top.list = <<>> THEN Panic ELSE Return(AltType(fn, Top.list, Top.v))

OneOf_Variant       == ALT_Variant("reflectOneOf")
OneOf_VariantReturn == ALT_VariantReturn("reflectOneOf")
OneOf_Return        == ALT_Return("reflectOneOf")
AnyOf_Variant       == ALT_Variant("reflectAnyOf")
AnyOf_VariantReturn == ALT_VariantReturn("reflectAnyOf")
AnyOf_Return        == ALT_Return("reflectAnyOf")
AllOf_Variant       == ALT_Variant("reflectAllOf")
AllOf_VariantReturn == ALT_VariantReturn("reflectAllOf")
AllOf_Return        == ALT_Return("reflectAllOf")

\* reflectEnum: variants[0] panics when there is no variant; else the call
\* of reflectType on the first variant
EN_First ==
    /\ Running("reflectEnum", "start")
    /\ ~AssertPanics(Top.v, "enum")
    /\ IF VariantsOf(Top.v) = <<>> THEN Panic
       ELSE LET variant == VariantsOf(Top.v)[1] IN
            Call([Top EXCEPT !.pc = "variant"],
                 Frame("reflectType", variant.vt, variant, FALSE))

\* EN_Return with the variants in the reverse order
EN_Return_Reversed ==
    /\ Running("reflectEnum", "variant")
    /\ LET variants == VariantsOf(Top.v) IN
       Return(handleDefaultValue(
                [EmptyType EXCEPT
                    !.Type = ret.Type,
                    !.Enum = [i \in 1..Len(variants) |->
                                 variants[Len(variants) + 1 - i]]], Top.v))

EN_Return ==
    /\ Running("reflectEnum", "variant")
    /\ Return(handleDefaultValue(
                [EmptyType EXCEPT !.Type = ret.Type,
                                  !.Enum = VariantsOf(Top.v)], Top.v))

-----------------------------------------------------------------------------
(* Reflect.                                                                *)

\* Reflect with a registry that is not made anew
Reflect_KeepRegistry ==
    /\ status = "idle"
    /\ status' = "running"
    /\ stack' = <<Frame("reflectType", input.t, Indirect(input.v), TRUE)>>
    /\ UNCHANGED <<fixed, ret, schema, definitions>>

\* Reflect(v): the registry is made and the walk of the root begins
Reflect ==
    /\ status = "idle"
    /\ status' = "running"
    /\ definitions' = Nil
    /\ stack' = <<Frame("reflectType", input.t, Indirect(input.v), TRUE)>>
    /\ UNCHANGED <<fixed, ret, schema>>

\* the walk of the root has returned: the schema is returned
ReflectReturn ==
    /\ status = "running"
    /\ stack = <<>>
    /\ schema' = [Type |-> [ret EXCEPT !.Version = Version],
                  Definitions |-> definitions]
    /\ status' = "returned"
    /\ UNCHANGED <<fixed, stack, ret, definitions>>

-----------------------------------------------------------------------------
(* The values Reflect is called on.                                        *)

\* a value of type t with something in it, to depth d
RECURSIVE Sample(_, _)
Sample(t, d) ==
    LET ty == TypeOf(t) IN
    IF d = 0 THEN Zero(t)
    ELSE CASE ty.kind = "struct" ->
                Val(t, FALSE,
                    [i \in 1..Len(ty.fields) |-> Sample(ty.fields[i].Type, d - 1)],
                    "")
           [] ty.kind = "array" ->
                Val(t, FALSE, [i \in 1..ty.len |-> Sample(ty.elem, d - 1)], "")
           [] ty.kind \in {"slice", "map"} ->
                Val(t, FALSE, <<Sample(ty.elem, d - 1), Zero(ty.elem)>>, "")
           [] ty.kind = "ptr" -> Val(t, FALSE, <<Sample(ty.elem, d - 1)>>, "")
           [] ty.kind = "interface" -> Val(t, FALSE, <<Str("value1")>>, "")
           [] ty.kind \in IntKinds -> Val(t, FALSE, <<>>, "666")
           [] ty.kind \in FloatKinds -> Val(t, FALSE, <<>>, "1.5")
           [] ty.kind = "bool" -> Val(t, FALSE, <<>>, "true")
           [] ty.kind = "string" -> Val(t, FALSE, <<>>, "some name")
           [] OTHER -> Val(t, FALSE, <<>>, "")

SampleDepth == 3

\* the types built on a declared type b
Shapes(b) ==
    {b, PtrTo(b), SliceOf(b), MapOf(b), ArrayOf("[2]", b), ArrayOf("[4]", b)}

\* the types the shapes are built on: the declared types and []byte
BaseTypes == {<<h>> : h \in DOMAIN NamedTypes} \cup {typeByteSlice}

WalkedTypes == UNION {Shapes(b) : b \in BaseTypes}

\* the values of type t Reflect is called on: the zero value, a value with
\* something in it and, of a slice, an empty one and one of one element
ValuesOf(t) ==
    {Zero(t), Sample(t, SampleDepth)} \cup
    (IF TKind(t) = "slice"
     THEN {Val(t, FALSE, <<>>, ""), Val(t, FALSE, <<Zero(TElem(t))>>, "")}
     ELSE {})

\* Reflect(x) for x of a walked type
DirectInputs ==
    UNION {{[t |-> t, v |-> v, fields |-> <<>>] : v \in ValuesOf(t)} :
              t \in WalkedTypes}

\* the struct value Root{...} made of the given fields and their values
RootInput(fs, vs) ==
    [t |-> RootId, v |-> Val(RootId, FALSE, vs, ""), fields |-> fs]

\* Reflect(Root{X: x}) for x of a walked type
MemberInputs ==
    UNION {{RootInput(<<Field("X", "", FALSE, t, Json("x"))>>, <<v>>) :
                v \in ValuesOf(t)} : t \in WalkedTypes}

Person(n) == Val(<<"GrandfatherType">>, FALSE, <<Str(n)>>, "")

\* the fields Root is put together from: a field and its value
FieldChoices ==
    {[f |-> Field("A", "", FALSE, <<"GrandfatherType">>, Json("a")),
      v |-> Zero(<<"GrandfatherType">>)],
     [f |-> Field("B", "", FALSE, <<"GrandfatherType">>, Json("b")),
      v |-> Person("Smith")],
     [f |-> Field("N", "", FALSE, <<"int">>, Json("a")),
      v |-> Val(<<"int">>, FALSE, <<>>, "666")],
     [f |-> Field("hidden", "jsonschema", FALSE, <<"GrandfatherType">>,
                  [json |-> <<"h">>, required |-> <<"true">>]),
      v |-> Person("Hidden")],
     [f |-> Field("Dash", "", FALSE, <<"GrandfatherType">>,
                  [json |-> <<"-">>, required |-> <<"true">>]),
      v |-> Person("Dash")],
     [f |-> Field("Ignored", "", FALSE, <<"GrandfatherType">>,
                  [json |-> <<"i">>, ignore |-> <<"true">>,
                   required |-> <<"true">>]),
      v |-> Person("Ignored")],
     [f |-> Field("Untagged", "", FALSE, <<"GrandfatherType">>,
                  [required |-> <<"true">>]),
      v |-> Person("Untagged")],
     [f |-> Field("OmitOnly", "", FALSE, <<"GrandfatherType">>,
                  [json |-> <<",", "omitempty">>, required |-> <<"true">>]),
      v |-> Person("OmitOnly")],
     [f |-> Field("Named", "", FALSE, <<"string">>,
                  [name |-> <<"n">>, json |-> <<"-">>,
                   required |-> <<"true">>]),
      v |-> Str("named")],
     [f |-> Field("Minus", "", FALSE, <<"int">>, [name |-> <<"-">>]),
      v |-> Val(<<"int">>, FALSE, <<>>, "1")],
     [f |-> Field("Req", "", FALSE, <<"string">>,
                  [json |-> <<"req">>, required |-> <<"true">>]),
      v |-> Str("needed")],
     [f |-> Field("Friends", "", FALSE, SliceOf(<<"int">>),
                  [json |-> <<"friends", ",", "omitempty">>]),
      v |-> Sample(SliceOf(<<"int">>), 1)],
     [f |-> Field("SomeBaseType", "", TRUE, <<"SomeBaseType">>, NoTag),
      v |-> Zero(<<"SomeBaseType">>)],
     [f |-> Field("GrandfatherType", "", TRUE, <<"GrandfatherType">>,
                  Json("base")),
      v |-> Person("Embedded")],
     [f |-> Field("nonExported", "jsonschema", TRUE, <<"nonExported">>, NoTag),
      v |-> Zero(<<"nonExported">>)],
     [f |-> Field("String", "", TRUE, <<"String">>, NoTag),
      v |-> Val(<<"String">>, FALSE, <<>>, "")],
     [f |-> Field("CfgA", "", FALSE, <<"pkga.Config">>, Json("ca")),
      v |-> Zero(<<"pkga.Config">>)],
     [f |-> Field("CfgB", "", FALSE, <<"pkgb.Config">>, Json("cb")),
      v |-> Zero(<<"pkgb.Config">>)],
     [f |-> Field("AnonA", "", FALSE, <<"struct{A}">>, Json("ua")),
      v |-> Zero(<<"struct{A}">>)],
     [f |-> Field("AnonB", "", FALSE, <<"struct{B}">>, Json("ub")),
      v |-> Zero(<<"struct{B}">>)]}

\* the sequences of at most n distinct choices
RECURSIVE ChoiceSeqs(_)
ChoiceSeqs(n) ==
    IF n = 0 THEN {<<>>}
    ELSE ChoiceSeqs(n - 1) \cup
         {Append(cs, c) : cs \in {x \in ChoiceSeqs(n - 1) : Len(x) = n - 1},
                          c \in FieldChoices}

Distinct(cs) == \A i, j \in 1..Len(cs) : cs[i] = cs[j] => i = j

\* Reflect(Root{...}) for Root of at most MaxFields of the choices
StructInputs ==
    {RootInput([i \in 1..Len(cs) |-> cs[i].f], [i \in 1..Len(cs) |-> cs[i].v]) :
        cs \in {x \in ChoiceSeqs(MaxFields) : Distinct(x)}}

\* the validation keys of a tag, by the group they belong to
StringKeys == [minLength |-> <<"1">>, maxLength |-> <<"20">>,
               format |-> <<"email">>]
NumberKeys == [minimum |-> <<"18">>, maximum |-> <<"120">>,
               exclusiveMinimum |-> <<"true">>, exclusiveMaximum |-> <<"true">>,
               multipleOf |-> <<"2">>]
ArrayKeys  == [minItems |-> <<"1">>, maxItems |-> <<"5">>,
               uniqueItems |-> <<"true">>]

\* the tag `json:"x" title:"T"` with the keys of the groups gs
TagOf(gs) ==
    Merge(Merge(Merge([json |-> <<"x">>, title |-> <<"T">>],
                      IF "string" \in gs THEN StringKeys ELSE Nil),
                IF "number" \in gs THEN NumberKeys ELSE Nil),
          IF "array" \in gs THEN ArrayKeys ELSE Nil)

TaggedTypes ==
    {<<"string">>, <<"int">>, <<"float64">>, <<"bool">>, <<"String">>,
     SliceOf(<<"int">>), SliceOf(<<"uint8">>), MapOf(<<"int">>),
     <<"GrandfatherType">>, <<"interface{}">>, <<"implicitOneOfImpl">>,
     PtrTo(<<"int">>)}

\* Reflect(Root{X: x}) for X with validation keys in its tag
TaggedInputs ==
    UNION {{RootInput(<<Field("X", "", FALSE, t, TagOf(gs))>>,
                      <<Sample(t, SampleDepth)>>) :
                gs \in (SUBSET {"string", "number", "array"}) \ {{}}} :
              t \in TaggedTypes}

\* Reflect(Root{X: x}) for X of a well-known type: with no validation key,
\* with the two lengths, and with the lengths and a format
FormatInputs ==
    UNION {{RootInput(<<Field("X", "", FALSE, t,
                              Merge([json |-> <<"x">>, title |-> <<"T">>], keys))>>,
                      <<Sample(t, SampleDepth)>>) :
                keys \in {Nil,
                          [minLength |-> <<"1">>, maxLength |-> <<"20">>],
                          StringKeys}} :
              t \in {typeTime, typeIP, typeURI}}

Inputs ==
    DirectInputs \cup MemberInputs \cup StructInputs \cup TaggedInputs
        \cup FormatInputs

-----------------------------------------------------------------------------
(* The specification.                                                      *)

Init ==
    /\ types = NamedTypes
    /\ other = Nil
    /\ done = <<>>
    /\ \E in \in Inputs :
          /\ input = [t |-> in.t, v |-> in.v]
          /\ rootFields = in.fields
    /\ stack = <<>>
    /\ ret = EmptyType
    /\ definitions = Nil
    /\ schema = Nil
    /\ status = "idle"

Next ==
    \/ Reflect
    \/ ReflectReturn
    \/ RT_Special
    \/ RT_Capability
    \/ RT_Struct
    \/ RT_StructReturn
    \/ RT_Slice
    \/ RT_Map
    \/ RT_Scalar
    \/ RT_Interface
    \/ RS_NumFieldPanic
    \/ RS_Return
    \/ RS_Unexported
    \/ RS_Embedded
    \/ RS_EmbeddedReturn
    \/ RS_Skip
    \/ RS_Walk
    \/ RS_FieldReturn
    \/ SL_Bytes
    \/ SL_Items
    \/ SL_Return
    \/ MP_Value
    \/ MP_Return
    \/ CP_AssertPanic
    \/ OneOf_Variant
    \/ OneOf_VariantReturn
    \/ OneOf_Return
    \/ AnyOf_Variant
    \/ AnyOf_VariantReturn
    \/ AnyOf_Return
    \/ AllOf_Variant
    \/ AllOf_VariantReturn
    \/ AllOf_Return
    \/ EN_First
    \/ EN_Return

Spec == Init /\ [][Next]_vars

-----------------------------------------------------------------------------
(* Several Reflect calls.  Two goroutines call Reflect; one of them runs   *)
(* at a time, the call of the other waits in `other`, and the scheduler    *)
(* may switch between them at every step.  A goroutine whose call has      *)
(* returned may call Reflect again.  What a call has is its arguments and  *)
(* locals: the registry is the local `definitions` of Reflect, made by     *)
(* `definitions := Definitions{}`.                                         *)

\* the most documents of earlier calls
MaxReturned == 1

\* the call of the running goroutine
Running_Call ==
    [input |-> input, rootFields |-> rootFields, stack |-> stack, ret |-> ret,
     definitions |-> definitions, schema |-> schema, status |-> status]

\* a call of Reflect(in) that has not begun; reg is what the memory of its
\* locals holds by then
NewCall(in, reg) ==
    [input |-> [t |-> in.t, v |-> in.v], rootFields |-> in.fields,
     stack |-> <<>>, ret |-> EmptyType, definitions |-> reg, schema |-> Nil,
     status |-> "idle"]

\* goroutine c is the one that runs
Resume(c) ==
    /\ input' = c.input
    /\ rootFields' = c.rootFields
    /\ stack' = c.stack
    /\ ret' = c.ret
    /\ definitions' = c.definitions
    /\ schema' = c.schema
    /\ status' = c.status

\* the values the calls beside the first are made on
CallInputs ==
    {[t |-> t, v |-> Sample(t, SampleDepth), fields |-> <<>>] :
        t \in {<<"SomeBaseType">>, MapOf(<<"pkga.Config">>), <<"string">>}}

\* the values the first call is made on
FirstInputs ==
    {[t |-> t, v |-> Sample(t, SampleDepth), fields |-> <<>>] :
        t \in {<<"SomeBaseType">>, <<"time.Time">>, <<"implicitOneOfImpl">>,
               <<"implicitAnyOfImpl">>, <<"implicitAllOfImpl">>,
               <<"enumImpl">>, PtrTo(<<"OneOfType">>), <<"chan">>,
               typeByteSlice,
               SliceOf(<<"int">>), MapOf(<<"GrandfatherType">>)}}
    \cup {RootInput(<<Field("SomeBaseType", "", TRUE, <<"SomeBaseType">>,
                            NoTag)>>,
                    <<Sample(<<"SomeBaseType">>, SampleDepth)>>),
           RootInput(<<Field("String", "", TRUE, <<"String">>, NoTag)>>,
                     <<Val(<<"String">>, FALSE, <<>>, "red")>>)}

\* the scheduler takes the running goroutine off and puts the other on; a
\* panic has ended the process
Switch ==
    /\ other # Nil
    /\ status \notin {"panic", "overflow"}
    /\ other' = Running_Call
    /\ Resume(other)
    /\ UNCHANGED <<types, done>>

\* the goroutine whose call has returned keeps the document and calls
\* Reflect again
CallAgain ==
    /\ status = "returned"
    /\ Len(done) < MaxReturned
    /\ done' = Append(done, [input |-> input, rootFields |-> rootFields,
                             schema |-> schema])
    /\ \E in \in CallInputs : Resume(NewCall(in, definitions))
    /\ UNCHANGED <<types, other>>

InitCalls ==
    /\ types = NamedTypes
    /\ done = <<>>
    /\ \E in \in CallInputs : other = NewCall(in, Nil)
    /\ \E in \in FirstInputs :
          /\ input = [t |-> in.t, v |-> in.v]
          /\ rootFields = in.fields
    /\ stack = <<>>
    /\ ret = EmptyType
    /\ definitions = Nil
    /\ schema = Nil
    /\ status = "idle"

NextCalls ==
    \/ Next
    \/ Switch
    \/ CallAgain

SpecCalls == InitCalls /\ [][NextCalls]_vars

-----------------------------------------------------------------------------
(* What the properties below say about an input and its schema.            *)

Returned == status = "returned"

\* Reflect was called on a Root
OnRoot == input.t = RootId

\* Reflect was called on a Root of the one field X
OnMember == OnRoot /\ Len(rootFields) = 1 /\ rootFields[1].Name = "X"

FTags(i) == parseTags(rootFields[i].Tag)

\* the type behind a pointer type
Pointee(t) == IF TKind(t) = "ptr" THEN TElem(t) ELSE t

\* a struct type, or a pointer to one, that is neither well-known nor has a
\* capability
PlainStruct(t) ==
    /\ TKind(Pointee(t)) = "struct"
    /\ ~IsSpecial(Pointee(t))
    /\ FirstCap(t) = ""
    /\ FirstCap(Pointee(t)) = ""

\* the property names the walk of struct type t ends with
RECURSIVE PropNames(_)
PropNames(t) ==
    UNION {LET f == TypeOf(t).fields[i] IN
           IF f.PkgPath # "" THEN {}
           ELSE (IF f.Anonymous /\ TKind(f.Type) = "struct"
                 THEN PropNames(f.Type) ELSE {})
                \cup (IF Skipped(parseTags(f.Tag)) THEN {}
                      ELSE {parseTags(f.Tag).name}) :
           i \in 1..Len(TypeOf(t).fields)}

\* the property names field j of Root puts into the root node
Writes(j) ==
    LET f == rootFields[j] IN
    IF f.PkgPath # "" THEN {}
    ELSE (IF f.Anonymous /\ TKind(f.Type) = "struct"
          THEN PropNames(f.Type) ELSE {})
         \cup (IF Skipped(FTags(j)) THEN {} ELSE {FTags(j).name})

\* field i of Root is an ordinary member whose property no later field
\* writes over
Kept(i) ==
    /\ rootFields[i].PkgPath = ""
    /\ ~rootFields[i].Anonymous
    /\ ~Skipped(FTags(i))
    /\ \A j \in (i + 1)..Len(rootFields) : FTags(i).name \notin Writes(j)

\* the node of field i of Root in the schema
Prop(i) == schema.Type.Properties[FTags(i).name]

\* the types a walk of t goes on to
TypeRefs(t) ==
    LET ty == TypeOf(t) IN
    IF ty.kind \in {"ptr", "slice", "array", "map"} THEN {ty.elem}
    ELSE IF ty.kind = "struct" /\ ~IsSpecial(t) /\ FirstCap(t) = ""
    THEN {ty.fields[i].Type : i \in
            {k \in 1..Len(ty.fields) :
                /\ ty.fields[k].PkgPath = ""
                /\ (ty.fields[k].Anonymous \/ ~Skipped(parseTags(ty.fields[k].Tag)))}}
    ELSE {}

RECURSIVE ReachFrom(_, _)
ReachFrom(frontier, seen) ==
    IF frontier \subseteq seen THEN seen
    ELSE ReachFrom(UNION {TypeRefs(t) : t \in frontier \ seen}, seen \cup frontier)

\* the types a walk of t meets, t among them
Reach(t) == ReachFrom({t}, {})

\* t's type graph has a struct type that leads back to itself
Recursive(t) ==
    \E u \in Reach(t) : TKind(u) = "struct" /\ u \in ReachFrom(TypeRefs(u), {})

\* the names of the plain struct types a walk of t meets
StructNames(t) == {TName(u) : u \in {x \in Reach(t) : PlainStruct(x) /\ TKind(x) = "struct"}}

-----------------------------------------------------------------------------
(* C1.  A named struct type at two or more member positions of Root: the   *)
(* registry has the entry of that name, an object node, and each of the    *)
(* positions holds the reference "#/definitions/<name>" and no object node *)
(* of its own.  No member of the root node or of a registry entry is a     *)
(* node with members of its own.                                           *)

SameStructTwice(i, j) ==
    /\ i < j
    /\ Kept(i)
    /\ Kept(j)
    /\ PlainStruct(rootFields[i].Type)
    /\ Pointee(rootFields[i].Type) = Pointee(rootFields[j].Type)

IsRefTo(node, name) ==
    /\ node.Ref = "#/definitions/" \o name
    /\ node.Type = ""
    /\ node.Properties = Nil

C1_OneEntryRefsAfterFirst ==
    Returned =>
        /\ OnRoot =>
             \A i, j \in 1..Len(rootFields) :
                 SameStructTwice(i, j) =>
                     LET name == TName(Pointee(rootFields[j].Type)) IN
                     /\ name \in DOMAIN schema.Definitions
                     /\ schema.Definitions[name].Type = tTypeObject
                     /\ schema.Definitions[name].Ref = ""
                     /\ IsRefTo(Prop(j), name)
                     /\ IsRefTo(Prop(i), name)
        /\ \A n \in DOMAIN schema.Type.Properties :
               schema.Type.Properties[n].Properties = Nil
        /\ \A d \in DOMAIN schema.Definitions :
               \A n \in DOMAIN schema.Definitions[d].Properties :
                   schema.Definitions[d].Properties[n].Properties = Nil

C1_Witness ==
    /\ Returned
    /\ OnRoot
    /\ \E i, j \in 1..Len(rootFields) : SameStructTwice(i, j)

-----------------------------------------------------------------------------
(* C2.  Every registry name is written at most once in a Reflect call: an  *)
(* entry once written keeps its node, and a walk that meets, at a position *)
(* below the root, a struct type whose name the registry already has       *)
(* returns the reference at once, with no walk of the members and no write *)
(* to the registry.                                                        *)

MeetsRegistered ==
    /\ Running("reflectType", "start")
    /\ ~Top.root
    /\ Generic(Top)
    /\ Kind(Deref(Top.t, Top.v)) = "struct"
    /\ TName(Deref(Top.t, Top.v).vt) \in DOMAIN definitions

C2_NameWrittenOnce ==
    [][/\ \A n \in DOMAIN definitions :
            n \in DOMAIN definitions' /\ definitions'[n] = definitions[n]
       /\ MeetsRegistered =>
            /\ stack' = SubSeq(stack, 1, Depth - 1)
            /\ ret' = newReference(TName(Deref(Top.t, Top.v).vt))
            /\ definitions' = definitions]_vars

-----------------------------------------------------------------------------
(* C3.  A Reflect call on a type whose type graph has a struct type that   *)
(* leads back to itself comes to an end: the stack does not outgrow every  *)
(* bound, and no walk of a struct value is under way inside the same walk  *)
(* of an equal value.                                                      *)

\* reflectStruct runs on a value inside a run of itself on an equal value
\* that waits at the same field
Reentered ==
    \E i, j \in 1..Depth :
        /\ i < j
        /\ stack[i].fn = "reflectStruct"
        /\ stack[j].fn = "reflectStruct"
        /\ stack[i].v = stack[j].v
        /\ stack[i].i = stack[j].i
        /\ stack[i].pc = stack[j].pc

C3_RecursiveTypesTerminate ==
    Recursive(input.t) => (status # "overflow" /\ ~Reentered)

-----------------------------------------------------------------------------
(* C4.  The node of a struct type at the root is the document's top-level  *)
(* object node, inline, and the registry has no entry of the root's name;  *)
(* the node of a struct type at a member, element or map value position is *)
(* in the registry under the type's name and the position holds the        *)
(* reference "#/definitions/" followed by that name.                       *)

StoredAndReferred(node, t) ==
    LET name == TName(Pointee(t)) IN
    /\ name \in DOMAIN schema.Definitions
    /\ schema.Definitions[name].Type = tTypeObject
    /\ schema.Definitions[name].Ref = ""
    /\ node.Ref = "#/definitions/" \o name
    /\ node.Type = ""

\* the positions of the call that hold a plain struct type below the root
StructBelowRoot ==
    \/ OnRoot /\ \E i \in 1..Len(rootFields) :
                    Kept(i) /\ PlainStruct(rootFields[i].Type)
    \/ TKind(input.t) \in {"slice", "map"} /\ PlainStruct(TElem(input.t))
                                          /\ TKind(TElem(input.t)) = "struct"

C4_RootInlineOthersReferred ==
    Returned =>
        /\ PlainStruct(input.t) =>
             /\ schema.Type.Type = tTypeObject
             /\ schema.Type.Ref = ""
             /\ TName(Pointee(input.t)) \notin DOMAIN schema.Definitions
        /\ OnRoot =>
             \A i \in 1..Len(rootFields) :
                 (Kept(i) /\ PlainStruct(rootFields[i].Type)) =>
                     StoredAndReferred(Prop(i), rootFields[i].Type)
        /\ (TKind(input.t) = "slice" /\ TKind(TElem(input.t)) = "struct"
                /\ PlainStruct(TElem(input.t))) =>
             StoredAndReferred(schema.Type.Items[1], TElem(input.t))
        /\ (TKind(input.t) = "map" /\ TKind(TElem(input.t)) = "struct"
                /\ PlainStruct(TElem(input.t))) =>
             StoredAndReferred(schema.Type.PatternProperties[".*"], TElem(input.t))

C4_Witness ==
    /\ Returned
    /\ PlainStruct(input.t)
    /\ StructBelowRoot
    /\ schema.Definitions # Nil

-----------------------------------------------------------------------------
(* C5.  The node of a type with capabilities, at the root, a member, an    *)
(* element or a map value position, is the node of the first of pbenum,    *)
(* oneof, anyof, allof, enum that the type has and of no other; it is no   *)
(* object node, no reference, and the registry has no entry of the type's  *)
(* name.                                                                   *)

\* the capabilities t has
CapsOf(t) == {c \in Caps : Implements(t, c)}

Precedence == <<"pbenum", "oneof", "anyof", "allof", "enum">>

\* the first capability of t in the order of precedence
Winner(t) ==
    Precedence[CHOOSE k \in 1..Len(Precedence) :
                  /\ Precedence[k] \in CapsOf(t)
                  /\ \A m \in 1..(k - 1) : Precedence[m] \notin CapsOf(t)]

HasCaps(t) == ~IsSpecial(t) /\ ~IsSpecial(Pointee(t)) /\ CapsOf(t) # {}

CapNode(node, t) ==
    LET c == Winner(t) IN
    /\ node.Ref = ""
    /\ node.Properties = Nil
    /\ node.Type # tTypeObject
    /\ (node.OneOf # Nil) <=> (c \in {"pbenum", "oneof"})
    /\ (node.AnyOf # Nil) <=> (c = "anyof")
    /\ (node.AllOf # Nil) <=> (c = "allof")
    /\ (node.Enum # Nil) <=> (c = "enum")
    /\ c = "pbenum" =>
         /\ Len(node.OneOf) = 2
         /\ node.OneOf[1].Type = tTypeString
         /\ node.OneOf[2].Type = tTypeInteger
    /\ c \in {"oneof", "anyof", "allof", "enum"} =>
         Len(IF c = "oneof" THEN node.OneOf
             ELSE IF c = "anyof" THEN node.AnyOf
             ELSE IF c = "allof" THEN node.AllOf
             ELSE node.Enum) = Len(TypeOf(Pointee(t)).variants)
    /\ TName(Pointee(t)) \notin DOMAIN schema.Definitions

C5_FirstCapabilityOnly ==
    Returned =>
        /\ HasCaps(input.t) => CapNode(schema.Type, input.t)
        /\ OnRoot =>
             \A i \in 1..Len(rootFields) :
                 (Kept(i) /\ HasCaps(rootFields[i].Type)) =>
                     CapNode(Prop(i), rootFields[i].Type)
        /\ (TKind(input.t) = "slice" /\ HasCaps(TElem(input.t))) =>
             CapNode(schema.Type.Items[1], TElem(input.t))
        /\ (TKind(input.t) = "map" /\ HasCaps(TElem(input.t))) =>
             CapNode(schema.Type.PatternProperties[".*"], TElem(input.t))

\* a struct type of more than one capability, none of them the last in
\* the order, has been walked as a member
C5_Witness ==
    /\ Returned
    /\ OnMember
    /\ Kept(1)
    /\ TKind(rootFields[1].Type) = "struct"
    /\ Cardinality(CapsOf(rootFields[1].Type)) = 3
    /\ Prop(1).AnyOf # Nil

-----------------------------------------------------------------------------
(* C6.  The node of time.Time, net.IP or url.URL, at the root, a member,   *)
(* an element or a map value position, is a string node with the format    *)
(* "date-time", "ipv4" or "uri", and the registry has no entry of the      *)
(* type's name.                                                            *)

WellKnown == {<<"time.Time">>, <<"net.IP">>, <<"url.URL">>}

FormatOf(t) ==
    CASE t = <<"time.Time">> -> "date-time"
      [] t = <<"net.IP">>    -> "ipv4"
      [] t = <<"url.URL">>   -> "uri"

FormatNode(node, t) ==
    /\ node.Type = tTypeString
    /\ node.Format = FormatOf(t)
    /\ node.Ref = ""
    /\ TName(t) \notin DOMAIN schema.Definitions

C6_WellKnownAtEveryPosition ==
    Returned =>
        /\ input.t \in WellKnown => FormatNode(schema.Type, input.t)
        /\ OnRoot =>
             \A i \in 1..Len(rootFields) :
                 (Kept(i) /\ rootFields[i].Type \in WellKnown) =>
                     FormatNode(Prop(i), rootFields[i].Type)
        /\ (TKind(input.t) = "slice" /\ TElem(input.t) \in WellKnown) =>
             FormatNode(schema.Type.Items[1], TElem(input.t))
        /\ (TKind(input.t) = "map" /\ TElem(input.t) \in WellKnown) =>
             FormatNode(schema.Type.PatternProperties[".*"], TElem(input.t))

-----------------------------------------------------------------------------
(* C7.  The node of an array type of length N, at the root, a member or a  *)
(* map value position, is an array node with items and with minItems and   *)
(* maxItems both N.                                                        *)

ArrayNode(node, t) ==
    /\ node.Type = tTypeArray
    /\ node.Items # Nil
    /\ node.MinItems = TypeOf(t).len
    /\ node.MaxItems = TypeOf(t).len

C7_ArraysHaveBothBounds ==
    Returned =>
        /\ TKind(input.t) = "array" => ArrayNode(schema.Type, input.t)
        /\ OnRoot =>
             \A i \in 1..Len(rootFields) :
                 (Kept(i) /\ TKind(rootFields[i].Type) = "array") =>
                     ArrayNode(Prop(i), rootFields[i].Type)

-----------------------------------------------------------------------------
(* C8.  The node of []byte, at the root, a member (the member's type       *)
(* []byte or a pointer to it), an element or a map value position,         *)
(* whatever the length and contents of the value, is a string node whose   *)
(* media has the binary encoding "base64" and which has no items: never an *)
(* array node.                                                             *)

ByteSeq == <<"[]", "uint8">>

BytesNode(node) ==
    /\ node.Type = tTypeString
    /\ node.Type # tTypeArray
    /\ node.Media = <<[EmptyType EXCEPT !.BinaryEncoding = "base64"]>>
    /\ node.Items = Nil
    /\ node.Ref = ""

-----------------------------------------------------------------------------
(* C9.  A member that is unexported, or is not embedded and has a          *)
(* descriptor that is marked ignored, has the name "-", has "-" for its    *)
(* JSON name, or has no name, is passed over: the walk goes to the next    *)
(* member with the node under construction and the registry as they were   *)
(* and no walk of the member's type begun, whatever else the tag says.     *)

JsonDash(tag) ==
    IF "json" \in DOMAIN tag THEN Split(tag["json"])[1] = "-" ELSE FALSE

Dropped(f) ==
    IF f.PkgPath # "" THEN TRUE
    ELSE /\ ~f.Anonymous
         /\ \/ parseTags(f.Tag).ignored
            \/ parseTags(f.Tag).name = ""
            \/ parseTags(f.Tag).name = "-"
            \/ JsonDash(f.Tag)

AtDropped ==
    IF status = "running" /\ Depth > 0
    THEN IF AtField(Top) THEN Dropped(StructField(Top.v, Top.i)) ELSE FALSE
    ELSE FALSE

C9_SkippedMembersContributeNothing ==
    [][AtDropped =>
         /\ stack' = [stack EXCEPT ![Depth] = NextField(Top)]
         /\ definitions' = definitions
         /\ status' = status]_vars

-----------------------------------------------------------------------------
(* C10.  For an exported embedded struct member of Root, the properties of *)
(* the embedded type are properties of the root node, no property of the   *)
(* root node that no other member accounts for is a reference to the       *)
(* embedded type's name, and the registry has an entry of that name only   *)
(* when the type is also met elsewhere in the walk.                        *)

\* the property names of struct type t with its embedded members flattened
RECURSIVE FlatNames(_)
FlatNames(t) ==
    UNION {LET f == TypeOf(t).fields[i] IN
           IF f.PkgPath # "" THEN {}
           ELSE IF f.Anonymous
           THEN (IF TKind(f.Type) = "struct" THEN FlatNames(f.Type) ELSE {})
           ELSE IF Skipped(parseTags(f.Tag)) THEN {}
           ELSE {parseTags(f.Tag).name} :
           i \in 1..Len(TypeOf(t).fields)}

Embedded(i) ==
    /\ rootFields[i].PkgPath = ""
    /\ rootFields[i].Anonymous
    /\ TKind(rootFields[i].Type) = "struct"

\* the property names field j of Root accounts for
Accounts(j) ==
    LET f == rootFields[j] IN
    IF f.PkgPath # "" THEN {}
    ELSE IF f.Anonymous
    THEN (IF TKind(f.Type) = "struct" THEN FlatNames(f.Type) ELSE {})
    ELSE IF Skipped(FTags(j)) THEN {}
    ELSE {FTags(j).name}

\* the struct names the walk of t's members meets
NamesBelow(t) == UNION {StructNames(u) : u \in TypeRefs(t)}

\* the struct names field j of Root brings into the registry
Registers(j) ==
    LET f == rootFields[j] IN
    IF f.PkgPath # "" THEN {}
    ELSE IF f.Anonymous
    THEN (IF TKind(f.Type) = "struct" THEN NamesBelow(f.Type) ELSE {})
    ELSE IF Skipped(FTags(j)) THEN {}
    ELSE StructNames(f.Type)

C10_EmbeddedFlattenedNoRef ==
    (Returned /\ OnRoot) =>
        \A i \in 1..Len(rootFields) :
            Embedded(i) =>
                LET name == TName(rootFields[i].Type) IN
                /\ FlatNames(rootFields[i].Type) \subseteq DOMAIN schema.Type.Properties
                /\ \A n \in DOMAIN schema.Type.Properties :
                      schema.Type.Properties[n].Ref = "#/definitions/" \o name =>
                          \E j \in 1..Len(rootFields) : n \in Accounts(j)
                /\ name \in DOMAIN schema.Definitions =>
                      \E j \in 1..Len(rootFields) : name \in Registers(j)

-----------------------------------------------------------------------------
(* C11.  The required set of the root node of a Root is exactly the names  *)
(* of its emitted members whose descriptor marks them required, together   *)
(* with the required names of its embedded members.                        *)

\* the names an object node requires
ReqNames(node) == {node.Required[k] : k \in DOMAIN node.Required}

\* the names struct type t requires, its embedded members flattened
RECURSIVE RequiredOf(_)
RequiredOf(t) ==
    UNION {LET f == TypeOf(t).fields[i] IN
           IF f.PkgPath # "" THEN {}
           ELSE IF f.Anonymous
           THEN (IF TKind(f.Type) = "struct" THEN RequiredOf(f.Type) ELSE {})
           ELSE IF Skipped(parseTags(f.Tag)) THEN {}
           ELSE IF parseTags(f.Tag).required THEN {parseTags(f.Tag).name}
           ELSE {} :
           i \in 1..Len(TypeOf(t).fields)}

\* the names field j of Root requires
RequiredBy(j) ==
    LET f == rootFields[j] IN
    IF f.PkgPath # "" THEN {}
    ELSE IF f.Anonymous
    THEN (IF TKind(f.Type) = "struct" THEN RequiredOf(f.Type) ELSE {})
    ELSE IF Skipped(FTags(j)) THEN {}
    ELSE IF FTags(j).required THEN {FTags(j).name}
    ELSE {}

C11_RequiredIsMarkedMembers ==
    (Returned /\ OnRoot) =>
        ReqNames(schema.Type) = UNION {RequiredBy(j) : j \in 1..Len(rootFields)}

-----------------------------------------------------------------------------
(* C12.  When the node of a member comes back to reflectStruct, the node   *)
(* put into the properties takes the tag's string constraints if and only  *)
(* if it is a string node, the tag's numeric constraints if and only if it *)
(* is a number or integer node, the tag's array constraints if and only if *)
(* it is an array node; the constraints of the other groups are left as    *)
(* the walk of the member returned them.                                   *)

StringGroup(n) == <<n.MinLength, n.MaxLength, n.Format>>
NumberGroup(n) ==
    <<n.Minimum, n.Maximum, n.ExclusiveMinimum, n.ExclusiveMaximum, n.MultipleOf>>
ArrayGroup(n) == <<n.MinItems, n.MaxItems, n.UniqueItems>>

StringOfTag(tg, n) ==
    <<tg.minLength, tg.maxLength, IF tg.format # "" THEN tg.format ELSE n.Format>>
NumberOfTag(tg) ==
    <<tg.minimum, tg.maximum, tg.exclusiveMinimum, tg.exclusiveMaximum,
      tg.multipleOf>>
ArrayOfTag(tg) == <<tg.minItems, tg.maxItems, tg.uniqueItems>>

C12_ConstraintGroupsByKind ==
    [][Running("reflectStruct", "field") =>
         LET tg == FieldTags(Top)
             n  == stack'[Depth].cur.Properties[tg.name]
         IN  /\ n.Type = ret.Type
             /\ StringGroup(n) = IF ret.Type = tTypeString
                                 THEN StringOfTag(tg, ret) ELSE StringGroup(ret)
             /\ NumberGroup(n) = IF ret.Type \in {tTypeNumber, tTypeInteger}
                                 THEN NumberOfTag(tg) ELSE NumberGroup(ret)
             /\ ArrayGroup(n) = IF ret.Type = tTypeArray
                                THEN ArrayOfTag(tg) ELSE ArrayGroup(ret)]_vars

-----------------------------------------------------------------------------
(* The positions of a call: the root, the members of Root, the elements of *)
(* a slice at the root and the values of a map at the root.                *)

\* Ok(node, t) holds of the node of every position whose type t is In
AtEveryPosition(In(_), Ok(_, _)) ==
    Returned =>
        /\ In(input.t) => Ok(schema.Type, input.t)
        /\ OnRoot =>
             \A i \in 1..Len(rootFields) :
                 (Kept(i) /\ In(rootFields[i].Type)) =>
                     Ok(Prop(i), rootFields[i].Type)
        /\ (TKind(input.t) = "slice" /\ In(TElem(input.t))) =>
             Ok(schema.Type.Items[1], TElem(input.t))
        /\ (TKind(input.t) = "map" /\ In(TElem(input.t))) =>
             Ok(schema.Type.PatternProperties[".*"], TElem(input.t))

\* the kind of the node of a scalar
JsonKind(k) ==
    CASE k \in IntKinds   -> tTypeInteger
      [] k \in FloatKinds -> tTypeNumber
      [] k = "bool"       -> tTypeBoolean
      [] k = "string"     -> tTypeString

-----------------------------------------------------------------------------
(* C13.  The oneOf, anyOf or allOf list of the node of a type with that    *)
(* capability has one child for each alternative, in the order of the      *)
(* capability's list, and child i is the walk of alternative i below the   *)
(* root: for a scalar alternative a node of its kind with the alternative  *)
(* as default, for a struct alternative the reference to its registry      *)
(* entry.                                                                  *)

HasAlternatives(t) ==
    IF HasCaps(t) THEN Winner(t) \in {"oneof", "anyof", "allof"} ELSE FALSE

\* the list of the node of a type with alternatives
AltList(node, t) ==
    CASE Winner(t) = "oneof" -> node.OneOf
      [] Winner(t) = "anyof" -> node.AnyOf
      [] Winner(t) = "allof" -> node.AllOf

ChildOfAlternative(child, alt) ==
    IF TKind(alt.vt) = "struct"
    THEN /\ child.Ref = "#/definitions/" \o TName(alt.vt)
         /\ child.Type = ""
         /\ TName(alt.vt) \in DOMAIN schema.Definitions
    ELSE /\ child.Type = JsonKind(TKind(alt.vt))
         /\ child.Default = <<alt>>
         /\ child.Ref = ""

OneChildPerAlternative(node, t) ==
    LET alts == TypeOf(Pointee(t)).variants
        list == AltList(node, t)
    IN  /\ Len(list) = Len(alts)
        /\ \A i \in 1..Len(alts) : ChildOfAlternative(list[i], alts[i])

C13_OneChildPerAlternative ==
    AtEveryPosition(HasAlternatives, OneChildPerAlternative)

\* a type whose alternatives are of three kinds has been walked as a member
C13_Witness ==
    /\ Returned
    /\ OnMember
    /\ rootFields[1].Type = <<"MixedAnyOf">>
    /\ Len(Prop(1).AnyOf) = 3
    /\ "GrandfatherType" \in DOMAIN schema.Definitions

-----------------------------------------------------------------------------
(* C14.  As first stated: the node of a type with oneOf, anyOf or allOf    *)
(* alternatives has no kind of its own.                                    *)

NoKind(node, t) == node.Type = ""

KindOfFirstChild(node, t) ==
    /\ node.Type = AltList(node, t)[1].Type
    /\ node.Properties = Nil
    /\ node.Items = Nil
    /\ node.Ref = ""

-----------------------------------------------------------------------------
(* C15.  The property node of a member of Root whose type has oneOf, anyOf *)
(* or allOf alternatives that are all strings is a string node.            *)

AllStrings(t) ==
    LET alts == TypeOf(Pointee(t)).variants IN
    /\ alts # <<>>
    /\ \A i \in 1..Len(alts) : TKind(alts[i].vt) = "string"

C15_StringAlternativesGiveString ==
    (Returned /\ OnRoot) =>
        \A i \in 1..Len(rootFields) :
            (Kept(i) /\ HasAlternatives(rootFields[i].Type)
                     /\ AllStrings(rootFields[i].Type)) =>
                Prop(i).Type = tTypeString

\* a member with three string allOf alternatives has been walked
C15_Witness ==
    /\ Returned
    /\ OnMember
    /\ HasAlternatives(rootFields[1].Type)
    /\ AllStrings(rootFields[1].Type)
    /\ Prop(1).Type = tTypeString
    /\ Len(Prop(1).AllOf) = 3

-----------------------------------------------------------------------------
(* Positions with their values: Ok(node, t, v) holds of the node of every  *)
(* position of type t and value v that In(t, v) selects, for the root and  *)
(* for the members of Root, whose value is the member's value in the       *)
(* instance Reflect was called on.                                         *)

AtRootAndMembers(In(_, _), Ok(_, _, _)) ==
    Returned =>
        /\ In(input.t, input.v) => Ok(schema.Type, input.t, input.v)
        /\ OnRoot =>
             \A i \in 1..Len(rootFields) :
                 (Kept(i) /\ In(rootFields[i].Type, input.v.sub[i])) =>
                     Ok(Prop(i), rootFields[i].Type, input.v.sub[i])

\* v is a value, and not a nil pointer
Present(v) == v.valid /\ (TKind(v.vt) = "ptr" => ~v.nil)

\* an absent optional: a nil pointer
Absent(v) == v.valid /\ TKind(v.vt) = "ptr" /\ v.nil

\* the value itself, or the one a pointer points to
Held(v) == IF TKind(v.vt) = "ptr" THEN v.sub[1] ELSE v

-----------------------------------------------------------------------------
(* C16.  The node of a type with a list of enum values has that list as    *)
(* its enum, of the same length and in the same order, the kind of the     *)
(* walk of the first value of the list as its kind, and the value that was *)
(* reflected as its default.                                               *)

IsEnum(t, v) ==
    IF HasCaps(t) /\ Present(v) THEN Winner(t) = "enum" ELSE FALSE

EnumNode(node, t, v) ==
    LET variants == TypeOf(Pointee(t)).variants IN
    /\ Len(node.Enum) = Len(variants)
    /\ \A i \in 1..Len(variants) : node.Enum[i] = variants[i]
    /\ node.Type = IF TKind(variants[1].vt) = "struct" THEN ""
                   ELSE JsonKind(TKind(variants[1].vt))
    /\ node.Default = <<Held(v)>>

C16_EnumListKindDefault == AtRootAndMembers(IsEnum, EnumNode)

\* a string type whose enum values are an int, a string and a struct has
\* been walked as a member
C16_Witness ==
    /\ Returned
    /\ OnMember
    /\ rootFields[1].Type = <<"MixedEnum">>
    /\ input.v.sub[1].lit = "some name"
    /\ Len(Prop(1).Enum) = 3
    /\ Prop(1).Type = tTypeInteger

-----------------------------------------------------------------------------
(* C17.  The node of a map, whatever the map holds, is an object node      *)
(* without properties and with the one patternProperties entry ".*", the   *)
(* walk below the root of the map's value type on a zero value: for a      *)
(* scalar value type a node of its kind with the zero value as default,    *)
(* for a struct value type the reference to its registry entry.            *)

IsMap(t) == TKind(t) = "map"

Scalars == IntKinds \cup FloatKinds \cup {"bool", "string"}

\* a scalar type that is not well-known and has no capability
PlainScalar(t) == TKind(t) \in Scalars /\ ~IsSpecial(t) /\ CapsOf(t) = {}

WalkOfZero(child, val) ==
    CASE PlainScalar(val) ->
           /\ child.Type = JsonKind(TKind(val))
           /\ child.Default = <<Zero(val)>>
           /\ child.Ref = ""
      [] PlainStruct(val) ->
           /\ child.Ref = "#/definitions/" \o TName(val)
           /\ child.Type = ""
           /\ TName(val) \in DOMAIN schema.Definitions
      [] OTHER -> TRUE

MapNode(node, t) ==
    /\ node.Type = tTypeObject
    /\ node.Properties = Nil
    /\ DOMAIN node.PatternProperties = {".*"}
    /\ WalkOfZero(node.PatternProperties[".*"], TElem(t))

C17_MapsHaveOnePattern == AtEveryPosition(IsMap, MapNode)

\* a map of ints with two entries, the first of them not zero, has been
\* walked at the root
C17_Witness ==
    /\ Returned
    /\ input.t = MapOf(<<"int">>)
    /\ Len(input.v.sub) = 2
    /\ input.v.sub[1].lit = "666"
    /\ schema.Type.PatternProperties[".*"].Type = tTypeInteger

-----------------------------------------------------------------------------
(* C18.  The items of the array node of a slice that is not a byte slice   *)
(* are the walk of the element type on the first element of the slice      *)
(* when it has one and on a zero value only when it is empty: for a slice  *)
(* of scalars, items has the element's kind and that element as default.   *)

\* a slice of scalars other than bytes that is not well-known and has no
\* capability
IsScalarSlice(t, v) ==
    /\ TKind(t) = "slice"
    /\ ~IsSpecial(t)
    /\ CapsOf(t) = {}
    /\ TElem(t) # <<"uint8">>
    /\ PlainScalar(TElem(t))
    /\ v.valid

ItemsOfRepresentative(node, t, v) ==
    /\ node.Type = tTypeArray
    /\ Len(node.Items) = 1
    /\ node.Items[1].Type = JsonKind(TKind(TElem(t)))
    /\ node.Items[1].Default =
           <<IF v.sub # <<>> THEN v.sub[1] ELSE Zero(TElem(t))>>

C18_ItemsFromFirstElement ==
    AtRootAndMembers(IsScalarSlice, ItemsOfRepresentative)

-----------------------------------------------------------------------------
(* C19.  The node of an integer, number, boolean or string value, at the   *)
(* root or as a member of Root (the member's value in the instance), has   *)
(* the value's kind and the value as its default; the node of a position   *)
(* whose value is the invalid Value (a nil interface, a nil pointer at the *)
(* root) has no default.                                                   *)

\* the value itself, or the one a pointer or an interface holds
Current(v) == IF TKind(v.vt) \in {"ptr", "interface"} THEN v.sub[1] ELSE v

IsLeaf(t, v) ==
    IF v.valid /\ ~v.nil /\ ~IsSpecial(t) /\ CapsOf(t) = {}
    THEN PlainScalar(Current(v).vt)
    ELSE FALSE

LeafNode(node, t, v) ==
    /\ node.Type = JsonKind(TKind(Current(v).vt))
    /\ node.Default = <<Current(v)>>

\* a nil interface
NilInterface(t, v) == TKind(t) = "interface" /\ v.valid /\ v.nil

NoDefault(node, t, v) == node.Default = Nil

C19_LeafDefaultIsValue ==
    /\ AtRootAndMembers(IsLeaf, LeafNode)
    /\ AtRootAndMembers(NilInterface, NoDefault)
    /\ (Returned /\ TKind(input.t) = "ptr" /\ input.v.nil) =>
           schema.Type.Default = Nil

\* a member of type *int pointing to 666 has been walked
C19_Witness ==
    /\ Returned
    /\ OnMember
    /\ rootFields[1].Type = PtrTo(<<"int">>)
    /\ ~input.v.sub[1].nil
    /\ Prop(1).Type = tTypeInteger
    /\ Prop(1).Default = <<Val(<<"int">>, FALSE, <<>>, "666")>>

-----------------------------------------------------------------------------
(* C20.  The node of an absent optional, a nil pointer at the root or as a *)
(* member of Root, has no default: the zero value made in its place gives  *)
(* the node its shape only.                                                *)

IsAbsent(t, v) == Absent(v)

C20_AbsentOptionalHasNoDefault == AtRootAndMembers(IsAbsent, NoDefault)

-----------------------------------------------------------------------------
(* C21.  A Reflect call whose walk reaches a value of a kind that is none  *)
(* of struct, slice, array, map, integer, float, bool, string, interface   *)
(* (here: a channel) at the root, as a member of Root, as a slice element  *)
(* or as a map value, does not return a document.                          *)

UnsupportedKind(t) ==
    TKind(t) \notin {"struct", "slice", "array", "map", "ptr", "interface"}
                    \cup Scalars

MeetsUnsupported ==
    \/ UnsupportedKind(input.t)
    \/ /\ OnRoot
       /\ \E i \in 1..Len(rootFields) :
             Kept(i) /\ UnsupportedKind(rootFields[i].Type)
    \/ /\ TKind(input.t) \in {"slice", "map"}
       /\ UnsupportedKind(TElem(input.t))

C21_UnsupportedKindFails == MeetsUnsupported => ~Returned

-----------------------------------------------------------------------------
(* C22.  A Reflect call ends by returning a document or not at all: no     *)
(* call ends in a run-time panic or with the stack used up, whatever the   *)
(* input (the code has no unsupported-type failure to end with).           *)

C22_ReturnsOrUnsupported == status \notin {"panic", "overflow"}

-----------------------------------------------------------------------------
(* C23.  With two goroutines calling Reflect, interleaved in any way, and  *)
(* calls made one after another: the registry of every returned document   *)
(* has names of struct types of that call's own walk only, and two calls   *)
(* on the same value return the same document, whatever ran before or      *)
(* beside them.                                                            *)

\* the documents returned so far, each with the value it was returned for
ReturnedDocs ==
    {done[i] : i \in 1..Len(done)}
    \cup (IF status = "returned"
          THEN {[input |-> input, rootFields |-> rootFields, schema |-> schema]}
          ELSE {})
    \cup (IF other = Nil THEN {}
          ELSE IF other.status = "returned"
          THEN {[input |-> other.input, rootFields |-> other.rootFields,
                 schema |-> other.schema]}
          ELSE {})

OwnNamesOnly(d) ==
    d.input.t # RootId =>
        DOMAIN d.schema.Definitions \subseteq StructNames(d.input.t)

-----------------------------------------------------------------------------
(* C24.  A Reflect call on a Root with a member of type ColorPicker, a     *)
(* struct whose only member is an embedded String, does not panic, and the *)
(* registry it returns has the entry "ColorPicker", a string node with the *)
(* embedded string value as default.                                       *)

HasColorPicker == OnMember /\ rootFields[1].Type = <<"ColorPicker">>

C24_EmbeddedStringEntry ==
    HasColorPicker =>
        /\ status # "panic"
        /\ Returned =>
             /\ "ColorPicker" \in DOMAIN schema.Definitions
             /\ schema.Definitions["ColorPicker"].Type = tTypeString
             /\ schema.Definitions["ColorPicker"].Default
                    = <<input.v.sub[1].sub[1]>>

-----------------------------------------------------------------------------
(* C25.  The registry is written only when reflectStruct has returned the  *)
(* node of a struct type below the root, with every member of the type in  *)
(* it, and in the step that hands the reference on.  At every point of a   *)
(* call each registry entry has all the members of a struct type of its    *)
(* name, and when a struct type is met while a walk of that same type is   *)
(* still going on, the registry has no entry of its name.                  *)

\* node has every member a walk of struct type t ends with
Complete(node, t) ==
    /\ node.Type = tTypeObject
    /\ DOMAIN node.Properties = PropNames(t)

\* the struct types of name n
TypesNamed(n) ==
    {<<h>> : h \in {x \in DOMAIN types : types[x].kind = "struct" /\ types[x].name = n}}

EntriesComplete ==
    \A n \in DOMAIN definitions : \E t \in TypesNamed(n) : Complete(definitions[n], t)

\* a walk of struct type t is going on below the top of the stack
BeingBuilt(t) ==
    \E k \in 1..(Depth - 1) : stack[k].fn = "reflectStruct" /\ stack[k].v.vt = t

\* reflectType is at a struct type that is being built further down
MeetsOwnType ==
    /\ Running("reflectType", "start")
    /\ Generic(Top)
    /\ Kind(Deref(Top.t, Top.v)) = "struct"
    /\ BeingBuilt(Deref(Top.t, Top.v).vt)

OwnTypeFindsNoEntry ==
    MeetsOwnType => TName(Deref(Top.t, Top.v).vt) \notin DOMAIN definitions

\* a step that writes the registry
WritesWhenBuilt ==
    definitions' # definitions =>
        /\ Running("reflectType", "struct")
        /\ ~Top.root
        /\ LET n == TName(Top.v.vt) IN
           /\ Complete(ret, Top.v.vt)
           /\ n \in DOMAIN definitions'
           /\ definitions'[n] = ret
           /\ \A k \in DOMAIN definitions \ {n} :
                 k \in DOMAIN definitions' /\ definitions'[k] = definitions[k]
           /\ DOMAIN definitions' = DOMAIN definitions \cup {n}
           /\ ret' = newReference(n)
           /\ stack' = SubSeq(stack, 1, Depth - 1)

C25_RegisteredWhenComplete ==
    /\ [](EntriesComplete /\ OwnTypeFindsNoEntry)
    /\ [][WritesWhenBuilt]_vars

\* SomeBaseType is half built and the registry has the entry of its member
C25_Witness ==
    /\ status = "running"
    /\ "GrandfatherType" \in DOMAIN definitions
    /\ "SomeBaseType" \notin DOMAIN definitions
    /\ \E k \in 1..Depth :
          /\ stack[k].fn = "reflectStruct"
          /\ stack[k].v.vt = <<"SomeBaseType">>
          /\ "grand" \in PropNames(<<"SomeBaseType">>)
          /\ "grand" \notin DOMAIN stack[k].cur.Properties

-----------------------------------------------------------------------------
(* C26.  A member of Root of type *time.Time, *net.IP or *url.URL has the  *)
(* node of the type pointed to: a string node with the format "date-time", *)
(* "ipv4" or "uri", and the registry has no entry of the pointee's name.   *)

PointerToWellKnown(t) == TKind(t) = "ptr" /\ TElem(t) \in WellKnown

C26_PointerToWellKnownIsFormat ==
    (Returned /\ OnMember /\ Kept(1) /\ PointerToWellKnown(rootFields[1].Type)) =>
        FormatNode(Prop(1), TElem(rootFields[1].Type))

-----------------------------------------------------------------------------
(* C27.  In a returned document every reference found in the root node or  *)
(* in a registry entry, at any depth, is "#/definitions/" followed by a    *)
(* key of the returned registry, and the entry of that key is an object    *)
(* node and no reference.                                                  *)

Range(f) == {f[x] : x \in DOMAIN f}

\* the nodes right below node
Children(node) ==
    Range(node.Properties) \cup Range(node.PatternProperties)
        \cup Range(node.Items) \cup Range(node.OneOf)
        \cup Range(node.AnyOf) \cup Range(node.AllOf)

\* the references in node and below it
RECURSIVE RefsIn(_)
RefsIn(node) ==
    (IF node.Ref # "" THEN {node.Ref} ELSE {})
        \cup UNION {RefsIn(c) : c \in Children(node)}

\* the references of the returned document
DocumentRefs ==
    RefsIn(schema.Type)
        \cup UNION {RefsIn(schema.Definitions[n]) : n \in DOMAIN schema.Definitions}

Resolves(ref) ==
    \E n \in DOMAIN schema.Definitions :
        /\ ref = "#/definitions/" \o n
        /\ schema.Definitions[n].Type = tTypeObject
        /\ schema.Definitions[n].Ref = ""

C27_ReferencesResolve ==
    Returned => \A ref \in DocumentRefs : Resolves(ref)

\* a reference in the root node and one in a registry entry
C27_Witness ==
    /\ Returned
    /\ RefsIn(schema.Type) # {}
    /\ \E n \in DOMAIN schema.Definitions : RefsIn(schema.Definitions[n]) # {}
    /\ Cardinality(DocumentRefs) >= 2

-----------------------------------------------------------------------------
(* C28.  Two different struct types of the same name, or two unnamed       *)
(* struct types, at two member positions of Root: the registry has one     *)
(* entry for both, under the name, the two positions hold the same         *)
(* reference, and the entry is the node of the type at the later position. *)

SameNameOtherType(i, j) ==
    /\ i < j
    /\ Kept(i)
    /\ Kept(j)
    /\ PlainStruct(rootFields[i].Type)
    /\ PlainStruct(rootFields[j].Type)
    /\ Pointee(rootFields[i].Type) # Pointee(rootFields[j].Type)
    /\ TName(Pointee(rootFields[i].Type)) = TName(Pointee(rootFields[j].Type))

\* the registry keys that belong to struct type t: its name, bare or
\* qualified in any way
KeysOf(t) ==
    {k \in DOMAIN schema.Definitions :
        \E u \in {x \in DOMAIN types : types[x].kind = "struct"
                                        /\ types[x].name = TName(t)} :
            k \in {TName(t), u}}

C28_SameNameSharesEntry ==
    (Returned /\ OnRoot) =>
        \A i, j \in 1..Len(rootFields) :
            SameNameOtherType(i, j) =>
                LET ti == Pointee(rootFields[i].Type)
                    tj == Pointee(rootFields[j].Type)
                    n  == TName(tj)
                IN  /\ KeysOf(tj) = {n}
                    /\ Prop(i).Ref = "#/definitions/" \o n
                    /\ Prop(j).Ref = Prop(i).Ref
                    /\ DOMAIN schema.Definitions[n].Properties = PropNames(tj)
                    /\ PropNames(tj) # PropNames(ti)

\* Root{CfgA pkga.Config; CfgB pkgb.Config} has returned
C28_Witness ==
    /\ Returned
    /\ OnRoot
    /\ Len(rootFields) = 2
    /\ SameNameOtherType(1, 2)
    /\ TName(rootFields[1].Type) = "Config"
    /\ DOMAIN schema.Definitions = {"Config"}

-----------------------------------------------------------------------------
(* C29.  The property node of a member of Root of type time.Time, net.IP   *)
(* or url.URL is a string node whose format is the tag's format when the   *)
(* tag has one and "date-time", "ipv4" or "uri" when it has none, and      *)
(* whose minLength and maxLength are the tag's, whatever they are.         *)

WellKnownMember == OnMember /\ Kept(1) /\ rootFields[1].Type \in WellKnown

C29_FormatKeptUnlessTagged ==
    (Returned /\ WellKnownMember) =>
        LET tg == FTags(1)
            n  == Prop(1)
        IN  /\ n.Type = tTypeString
            /\ tg.format = "" => n.Format = FormatOf(rootFields[1].Type)
            /\ tg.format # "" => n.Format = tg.format
            /\ n.MinLength = tg.minLength
            /\ n.MaxLength = tg.maxLength

\* a time.Time member tagged with lengths and no format
C29_Witness ==
    /\ Returned
    /\ WellKnownMember
    /\ rootFields[1].Type = typeTime
    /\ FTags(1).format = ""
    /\ FTags(1).minLength = 1
    /\ Prop(1).MaxLength = 20
    /\ Prop(1).Title = "T"
    /\ Prop(1).Format = "date-time"

====
